---------------------------- MODULE Spec2Model ----------------------------
(***************************************************************************)
(* Supply Daddy backend: the checkpoint state machine.                     *)
(*                                                                         *)
(* State: the document store (shipments, telemetry, anomalies), the        *)
(* ShipmentAnchor ledger, the request handlers suspended at an await, and  *)
(* the last HTTP response sent.  One action per request handler segment    *)
(* that runs without giving the event loop a chance to switch tasks.       *)
(*                                                                         *)
(* Conventions.  Times are whole hours.  Python's None is "None" for       *)
(* strings and NoTime / NoReading for numbers.  A SHA-256 digest is the    *)
(* string "sha256(<preimage>)": equal digests iff equal preimages.         *)
(***************************************************************************)
EXTENDS Integers, Sequences, FiniteSets, TLC

\* ------------------------------------------------------------------ bounds
\* Handlers that may be suspended at an await at the same time.
MaxTasks == 1
\* God-mode requests served per behaviour.
MaxInjections == 1
\* Failures of the collaborators (ledger RPC, GenAI) within one behaviour.
MaxFaults == 1
\* Checkpoints accepted within one behaviour.
MaxCheckpoints == 2
\* Largest delay, in hours, propagate_delay is evaluated for.
MaxDelay == 8

\* --------------------------------------------------------------- constants
\* None for an Optional[datetime] (expected_arrival, eta, actual_arrival).
NoTime == -1000
\* None for an Optional[float] (temperature, humidity).
NoReading == -999
\* float("inf") of find_optimal_route.
Inf == 100000
ShipmentIds == {"S1"}

\* ============================================================ pure helpers
Max(a, b) == IF a > b THEN a ELSE b
Abs(a) == IF a < 0 THEN -a ELSE a
SeqToSet(s) == {s[i] : i \in 1..Len(s)}

\* hashlib.sha256(x).digest(): collision-free on the preimages of the model.
Sha256(preimage) == "sha256(" \o preimage \o ")"

\* compute_doc_hash: sha256 of f"PO:{po}|INV:{inv}|BOL:{bol}".
compute_doc_hash(po_text, invoice_text, bol_text) ==
    Sha256("PO:" \o po_text \o "|INV:" \o invoice_text \o "|BOL:" \o bol_text)

\* The digest the god-mode injections anchor:
\* sha256(f"{shipment_id}:{tag}:{location_code}").
injection_hash(shipment_id, tag, location_code) ==
    Sha256(shipment_id \o ":" \o tag \o ":" \o location_code)

\* ============================================================ route_graph
NODES ==
    {"DEL", "JAI", "LKO", "KNP", "AMD", "BPL", "KOL", "MUM", "PNQ", "NAG",
     "HYD", "BBI", "VTZ", "BLR", "CHN"}

\* (node_a, node_b, travel_hours), in the order of the source list.
EDGES ==
    << <<"DEL", "JAI", 5>>,  <<"DEL", "LKO", 9>>,  <<"DEL", "KNP", 8>>,
       <<"JAI", "AMD", 10>>, <<"JAI", "BPL", 11>>, <<"LKO", "KNP", 3>>,
       <<"LKO", "KOL", 15>>, <<"KNP", "BPL", 9>>,  <<"AMD", "MUM", 8>>,
       <<"MUM", "PNQ", 3>>,  <<"PNQ", "BLR", 14>>, <<"BPL", "NAG", 6>>,
       <<"NAG", "HYD", 8>>,  <<"NAG", "KOL", 13>>, <<"HYD", "BLR", 10>>,
       <<"HYD", "VTZ", 9>>,  <<"BLR", "CHN", 6>>,  <<"CHN", "VTZ", 12>>,
       <<"VTZ", "BBI", 7>>,  <<"BBI", "KOL", 8>>,  <<"MUM", "HYD", 13>>,
       <<"PNQ", "HYD", 10>> >>

\* NODES[code]["name"].
NodeName(code) ==
    CASE code = "DEL" -> "Delhi Hub"       [] code = "JAI" -> "Jaipur Hub"
      [] code = "LKO" -> "Lucknow Hub"     [] code = "KNP" -> "Kanpur Hub"
      [] code = "AMD" -> "Ahmedabad Hub"   [] code = "BPL" -> "Bhopal Hub"
      [] code = "KOL" -> "Kolkata Hub"     [] code = "MUM" -> "Mumbai Hub"
      [] code = "PNQ" -> "Pune Hub"        [] code = "NAG" -> "Nagpur Hub"
      [] code = "HYD" -> "Hyderabad Hub"   [] code = "BBI" -> "Bhubaneswar Hub"
      [] code = "VTZ" -> "Visakhapatnam Hub"
      [] code = "BLR" -> "Bangalore Hub"   [] code = "CHN" -> "Chennai Hub"

\* Python's order on the node codes (heapq compares (dist, code) tuples).
CodeOrder ==
    << "AMD", "BBI", "BLR", "BPL", "CHN", "DEL", "HYD", "JAI", "KNP", "KOL",
       "LKO", "MUM", "NAG", "PNQ", "VTZ" >>
CodeRank(code) == CHOOSE i \in 1..Len(CodeOrder) : CodeOrder[i] = code

\* _build_adjacency: adj[u] as the set of (neighbour, hours) pairs.
Adjacency(u) ==
    {<<EDGES[k][2], EDGES[k][3]>> : k \in {j \in 1..Len(EDGES) : EDGES[j][1] = u}}
    \cup
    {<<EDGES[k][1], EDGES[k][3]>> : k \in {j \in 1..Len(EDGES) : EDGES[j][2] = u}}

\* A queue that hands out its greatest tuple.
HeapTopLast(pq) ==
    CHOOSE e \in pq : \A f \in pq :
        \/ e[1] > f[1]
        \/ (e[1] = f[1] /\ CodeRank(e[2]) >= CodeRank(f[2]))

\* heapq.heappop: the least (dist, code) tuple of the queue.
HeapTop(pq) ==
    CHOOSE e \in pq : \A f \in pq :
        \/ e[1] < f[1]
        \/ (e[1] = f[1] /\ CodeRank(e[2]) <= CodeRank(f[2]))

\* The while loop of find_optimal_route: returns the final dist and prev.
RECURSIVE DijkstraLoop(_, _, _, _)
DijkstraLoop(dist, prev, pq, destination) ==
    IF pq = {} THEN [dist |-> dist, prev |-> prev]
    ELSE
      LET top  == HeapTop(pq)
          d    == top[1]
          u    == top[2]
          rest == pq \ {top}
      IN IF d > dist[u] THEN DijkstraLoop(dist, prev, rest, destination)
         ELSE IF u = destination THEN [dist |-> dist, prev |-> prev]
         ELSE
           LET better == {e \in Adjacency(u) : dist[u] + e[2] < dist[e[1]]}
               hit(v) == \E e \in better : e[1] = v
               nd(v)  == dist[u] + (CHOOSE e \in better : e[1] = v)[2]
               dist2  == [v \in NODES |-> IF hit(v) THEN nd(v) ELSE dist[v]]
               prev2  == [v \in NODES |-> IF hit(v) THEN u ELSE prev[v]]
               pushed == {<<nd(e[1]), e[1]>> : e \in better}
           IN DijkstraLoop(dist2, prev2, rest \cup pushed, destination)

\* A reconstruction that follows prev two steps at a time.
RECURSIVE PathToSkipping(_, _)
PathToSkipping(prev, node) ==
    IF node = "None" THEN <<>>
    ELSE IF prev[node] = "None" THEN <<node>>
    ELSE Append(PathToSkipping(prev, prev[prev[node]]), node)

\* Path reconstruction: follow prev from the destination, then reverse.
RECURSIVE PathTo(_, _)
PathTo(prev, node) ==
    IF node = "None" THEN <<>> ELSE Append(PathTo(prev, prev[node]), node)

\* Weight of the first edge of EDGES joining a and b (0 when there is none).
EdgeHours(a, b) ==
    LET ks == {k \in 1..Len(EDGES) :
                 \/ (EDGES[k][1] = a /\ EDGES[k][2] = b)
                 \/ (EDGES[k][2] = a /\ EDGES[k][1] = b)}
    IN IF ks = {} THEN 0
       ELSE EDGES[CHOOSE k \in ks : \A j \in ks : k <= j][3]

\* A cumulative_hours that holds the last leg only.
CumulativeHoursLastLeg(path, i) ==
    IF i <= 1 THEN 0 ELSE EdgeHours(path[i - 1], path[i])

\* cumulative_hours after the loop has handled path[1..i].
RECURSIVE CumulativeHours(_, _)
CumulativeHours(path, i) ==
    IF i <= 1 THEN 0
    ELSE CumulativeHours(path, i - 1) + EdgeHours(path[i - 1], path[i])

\* One route node dict.
RouteNode(code, name, expected, eta, actual) ==
    [location_code |-> code, name |-> name, expected_arrival |-> expected,
     eta |-> eta, actual_arrival |-> actual]

\* A find_optimal_route that routes an unknown endpoint as a lone node.
find_optimal_route_lenient(origin, destination, now) ==
    IF origin \notin NODES \/ destination \notin NODES
    THEN << RouteNode(origin, origin, now, now, NoTime) >>
    ELSE LET done == DijkstraLoop([v \in NODES |-> IF v = origin THEN 0 ELSE Inf],
                                  [v \in NODES |-> "None"], {<<0, origin>>},
                                  destination)
             path == PathTo(done.prev, destination)
         IN [i \in 1..Len(path) |->
                RouteNode(path[i], NodeName(path[i]),
                          now + CumulativeHours(path, i),
                          now + CumulativeHours(path, i), NoTime)]

\* find_optimal_route(origin, destination) at time now: the route, or <<>>
\* for None (no route).
find_optimal_route(origin, destination, now) ==
    IF origin \notin NODES \/ destination \notin NODES THEN <<>>
    ELSE IF origin = destination
    THEN << RouteNode(origin, NodeName(origin), now, now, NoTime) >>
    ELSE
      LET dist0 == [v \in NODES |-> IF v = origin THEN 0 ELSE Inf]
          prev0 == [v \in NODES |-> "None"]
          done  == DijkstraLoop(dist0, prev0, {<<0, origin>>}, destination)
      IN IF done.dist[destination] = Inf THEN <<>>
         ELSE
           LET path == PathTo(done.prev, destination)
           IN [i \in 1..Len(path) |->
                 RouteNode(path[i], NodeName(path[i]),
                           now + CumulativeHours(path, i),
                           now + CumulativeHours(path, i), NoTime)]

\* =========================================================== risk_policies
RISK_POLICIES ==
    [pharmaceutical |->
        [temperature_range |-> <<2, 8>>, max_delay_hours |-> 6,
         weight_tolerance_pct |-> 2, humidity_max_pct |-> 60],
     food_grain |->
        [temperature_range |-> <<10, 35>>, moisture_max_pct |-> 14,
         max_delay_hours |-> 24, weight_tolerance_pct |-> 5],
     lithium_battery |->
        [temperature_range |-> <<-10, 30>>, hazmat_required |-> TRUE,
         max_delay_hours |-> 12, weight_tolerance_pct |-> 1],
     electronics |->
        [temperature_range |-> <<0, 40>>, humidity_max_pct |-> 70,
         max_delay_hours |-> 48, weight_tolerance_pct |-> 3],
     default |->
        [temperature_range |-> <<-20, 50>>, max_delay_hours |-> 72,
         weight_tolerance_pct |-> 10]]

\* get_policy: RISK_POLICIES.get(category, RISK_POLICIES["default"]).
get_policy(product_category) ==
    IF product_category \in DOMAIN RISK_POLICIES
    THEN RISK_POLICIES[product_category]
    ELSE RISK_POLICIES["default"]

\* ============================================================= risk_engine
\* genai_assessment = None.
NoAssessment == [severity_level |-> "None", error |-> "None"]

\* AnomalyRecord(...).model_dump(mode="json"), without created_at.
AnomalyRecord(shipment_id, anomaly_type, severity, details, location_code) ==
    [shipment_id |-> shipment_id, anomaly_type |-> anomaly_type,
     severity |-> severity, details |-> details,
     location_code |-> location_code, resolved |-> FALSE,
     genai_assessment |-> NoAssessment]

\* A _temp_severity that is HIGH from half the range on.
temp_severity_from_half(observed, min_t, max_t) ==
    LET range_size == max_t - min_t
        deviation  == IF observed < min_t THEN min_t - observed
                      ELSE observed - max_t
    IN IF range_size = 0 \/ deviation > range_size THEN "CRITICAL"
       ELSE IF 2 * deviation >= range_size THEN "HIGH"
       ELSE "MEDIUM"

\* _temp_severity.
temp_severity(observed, min_t, max_t) ==
    LET range_size == max_t - min_t
        deviation  == IF observed < min_t THEN min_t - observed
                      ELSE observed - max_t
    IN IF range_size = 0 THEN "CRITICAL"
       \* ratio = deviation / range_size, range_size > 0 in every policy
       ELSE IF deviation > range_size THEN "CRITICAL"
       ELSE IF 2 * deviation > range_size THEN "HIGH"
       ELSE "MEDIUM"

\* An evaluate_checkpoint whose weight rule fires at the tolerance itself.
evaluate_checkpoint_weight_at_tolerance(shipment_id, product_category, location_code, temperature, humidity, weight_kg, expected_weight_kg, delay_hours) ==
    LET policy == get_policy(product_category)
        has(k) == k \in DOMAIN policy
        temp ==
            IF temperature # NoReading /\ has("temperature_range")
               /\ (temperature < policy.temperature_range[1]
                   \/ temperature > policy.temperature_range[2])
            THEN << AnomalyRecord(shipment_id, "TEMPERATURE_BREACH",
                       temp_severity(temperature, policy.temperature_range[1],
                                     policy.temperature_range[2]),
                       [observed_temperature |-> temperature,
                        allowed_range |-> policy.temperature_range,
                        product_category |-> product_category],
                       location_code) >>
            ELSE <<>>
        hum ==
            IF humidity # NoReading /\ has("humidity_max_pct")
               /\ humidity > policy.humidity_max_pct
            THEN << AnomalyRecord(shipment_id, "HUMIDITY_BREACH", "MEDIUM",
                       [observed_humidity |-> humidity,
                        max_allowed |-> policy.humidity_max_pct],
                       location_code) >>
            ELSE <<>>
        \* deviation_pct = abs(w - e) / e * 100 > tolerance, without division:
        \* a negative baseline gives a negative percentage, never above it
        dev100 == Abs(weight_kg - expected_weight_kg) * 100
        wgt ==
            IF expected_weight_kg # NoReading /\ expected_weight_kg # 0
               /\ has("weight_tolerance_pct")
               /\ expected_weight_kg > 0
               /\ dev100 >= policy.weight_tolerance_pct * expected_weight_kg
            THEN << AnomalyRecord(shipment_id, "WEIGHT_DEVIATION",
                       IF dev100 > policy.weight_tolerance_pct * 2 * expected_weight_kg
                       THEN "HIGH" ELSE "MEDIUM",
                       [observed_weight_kg |-> weight_kg,
                        expected_weight_kg |-> expected_weight_kg,
                        tolerance_pct |-> policy.weight_tolerance_pct],
                       location_code) >>
            ELSE <<>>
        dly ==
            IF delay_hours > 0 /\ has("max_delay_hours")
               /\ delay_hours > policy.max_delay_hours
            THEN << AnomalyRecord(shipment_id, "DELAY",
                       IF delay_hours > policy.max_delay_hours * 2
                       THEN "HIGH" ELSE "MEDIUM",
                       [delay_hours |-> delay_hours,
                        max_allowed_hours |-> policy.max_delay_hours],
                       location_code) >>
            ELSE <<>>
    IN temp \o hum \o wgt \o dly

\* An evaluate_checkpoint whose delay rule fires at the maximum itself.
evaluate_checkpoint_delay_at_max(shipment_id, product_category, location_code, temperature, humidity, weight_kg, expected_weight_kg, delay_hours) ==
    LET policy == get_policy(product_category)
        has(k) == k \in DOMAIN policy
        temp ==
            IF temperature # NoReading /\ has("temperature_range")
               /\ (temperature < policy.temperature_range[1]
                   \/ temperature > policy.temperature_range[2])
            THEN << AnomalyRecord(shipment_id, "TEMPERATURE_BREACH",
                       temp_severity(temperature, policy.temperature_range[1],
                                     policy.temperature_range[2]),
                       [observed_temperature |-> temperature,
                        allowed_range |-> policy.temperature_range,
                        product_category |-> product_category],
                       location_code) >>
            ELSE <<>>
        hum ==
            IF humidity # NoReading /\ has("humidity_max_pct")
               /\ humidity > policy.humidity_max_pct
            THEN << AnomalyRecord(shipment_id, "HUMIDITY_BREACH", "MEDIUM",
                       [observed_humidity |-> humidity,
                        max_allowed |-> policy.humidity_max_pct],
                       location_code) >>
            ELSE <<>>
        \* deviation_pct = abs(w - e) / e * 100 > tolerance, without division:
        \* a negative baseline gives a negative percentage, never above it
        dev100 == Abs(weight_kg - expected_weight_kg) * 100
        wgt ==
            IF expected_weight_kg # NoReading /\ expected_weight_kg # 0
               /\ has("weight_tolerance_pct")
               /\ expected_weight_kg > 0
               /\ dev100 > policy.weight_tolerance_pct * expected_weight_kg
            THEN << AnomalyRecord(shipment_id, "WEIGHT_DEVIATION",
                       IF dev100 > policy.weight_tolerance_pct * 2 * expected_weight_kg
                       THEN "HIGH" ELSE "MEDIUM",
                       [observed_weight_kg |-> weight_kg,
                        expected_weight_kg |-> expected_weight_kg,
                        tolerance_pct |-> policy.weight_tolerance_pct],
                       location_code) >>
            ELSE <<>>
        dly ==
            IF delay_hours > 0 /\ has("max_delay_hours")
               /\ delay_hours >= policy.max_delay_hours
            THEN << AnomalyRecord(shipment_id, "DELAY",
                       IF delay_hours > policy.max_delay_hours * 2
                       THEN "HIGH" ELSE "MEDIUM",
                       [delay_hours |-> delay_hours,
                        max_allowed_hours |-> policy.max_delay_hours],
                       location_code) >>
            ELSE <<>>
    IN temp \o hum \o wgt \o dly

\* evaluate_checkpoint: the anomalies, in the order they are appended.
\* expected_weight_kg = NoReading stands for None; a zero baseline is falsy.
evaluate_checkpoint(shipment_id, product_category, location_code, temperature, humidity, weight_kg, expected_weight_kg, delay_hours) ==
    LET policy == get_policy(product_category)
        has(k) == k \in DOMAIN policy
        temp ==
            IF temperature # NoReading /\ has("temperature_range")
               /\ (temperature < policy.temperature_range[1]
                   \/ temperature > policy.temperature_range[2])
            THEN << AnomalyRecord(shipment_id, "TEMPERATURE_BREACH",
                       temp_severity(temperature, policy.temperature_range[1],
                                     policy.temperature_range[2]),
                       [observed_temperature |-> temperature,
                        allowed_range |-> policy.temperature_range,
                        product_category |-> product_category],
                       location_code) >>
            ELSE <<>>
        hum ==
            IF humidity # NoReading /\ has("humidity_max_pct")
               /\ humidity > policy.humidity_max_pct
            THEN << AnomalyRecord(shipment_id, "HUMIDITY_BREACH", "MEDIUM",
                       [observed_humidity |-> humidity,
                        max_allowed |-> policy.humidity_max_pct],
                       location_code) >>
            ELSE <<>>
        \* deviation_pct = abs(w - e) / e * 100 > tolerance, without division:
        \* a negative baseline gives a negative percentage, never above it
        dev100 == Abs(weight_kg - expected_weight_kg) * 100
        wgt ==
            IF expected_weight_kg # NoReading /\ expected_weight_kg # 0
               /\ has("weight_tolerance_pct")
               /\ expected_weight_kg > 0
               /\ dev100 > policy.weight_tolerance_pct * expected_weight_kg
            THEN << AnomalyRecord(shipment_id, "WEIGHT_DEVIATION",
                       IF dev100 > policy.weight_tolerance_pct * 2 * expected_weight_kg
                       THEN "HIGH" ELSE "MEDIUM",
                       [observed_weight_kg |-> weight_kg,
                        expected_weight_kg |-> expected_weight_kg,
                        tolerance_pct |-> policy.weight_tolerance_pct],
                       location_code) >>
            ELSE <<>>
        dly ==
            IF delay_hours > 0 /\ has("max_delay_hours")
               /\ delay_hours > policy.max_delay_hours
            THEN << AnomalyRecord(shipment_id, "DELAY",
                       IF delay_hours > policy.max_delay_hours * 2
                       THEN "HIGH" ELSE "MEDIUM",
                       [delay_hours |-> delay_hours,
                        max_allowed_hours |-> policy.max_delay_hours],
                       location_code) >>
            ELSE <<>>
    IN temp \o hum \o wgt \o dly

\* ============================================================== eta_engine
\* A shift that takes the delay off.
ShiftTimeEarlier(t, delay_hours) == IF t = NoTime THEN NoTime ELSE t - delay_hours

\* timedelta addition on an Optional time: None (falsy) is left alone.
ShiftTime(t, delay_hours) == IF t = NoTime THEN NoTime ELSE t + delay_hours

\* The loop starting at the delayed node itself: range(node_index, len(route)).
ShiftCountInclusive(route, node_index, p) ==
    (IF p >= node_index THEN 1 ELSE 0)
    + (IF p - Len(route) >= node_index THEN 1 ELSE 0)

\* propagate_delay(route, node_index, delay_hours) for a 0-based node_index
\* >= -len(route): the loop runs i over range(node_index + 1, len(route))
\* and shifts route[i]; a negative i addresses route[len(route) + i], so the
\* node at 0-based position p is shifted once for i = p and once more for
\* i = p - len(route) when that is in the range.
ShiftCount(route, node_index, p) ==
    (IF p >= node_index + 1 THEN 1 ELSE 0)
    + (IF p - Len(route) >= node_index + 1 THEN 1 ELSE 0)

propagate_delay(route, node_index, delay_hours) ==
    [i \in 1..Len(route) |->
        LET shift == ShiftCount(route, node_index, i - 1) * delay_hours
        IN [route[i] EXCEPT
               !.eta = ShiftTime(@, shift),
               !.expected_arrival = ShiftTime(@, shift)]]

\* ==================================================================== state
VARIABLES
    shipments,   \* _mem_store["shipments"]: shipment_id -> shipment dict
    telemetry,   \* _mem_store["telemetry"], in insertion order
    anomalies,   \* _mem_store["anomalies"]: the stored anomaly dicts, in
                 \* insertion order (one key per created_at)
    chain,       \* ShipmentAnchor: shipment_id -> its checkpoints, in order
    contract,    \* blockchain_service._contract: "loaded", or "None" (stub)
    db,          \* firebase_service._db: "firestore", or "None" (in-memory)
    tasks,       \* request handlers suspended at an await
    injections,  \* god-mode requests served so far
    faults,      \* collaborator calls that have failed so far
    response     \* the last HTTP response sent

vars == <<shipments, telemetry, anomalies, chain, contract, db, tasks,
          injections, faults, response>>

\* The stores of the persistence collaborator and the ledger.
stores == <<shipments, telemetry, anomalies, chain>>

\* ------------------------------------------------------------------ inputs
\* Document texts a request may carry.
DocTexts == {"", "X", "Y"}

\* Caller-supplied routes (ShipmentCreate.route, RouteNode.model_dump).
SuppliedRoutes ==
    { << RouteNode("LKO", "a", 0, 0, NoTime), RouteNode("KNP", "b", 3, NoTime, 2) >> }

ShipmentCreate(shipment_id, origin, destination, route, po_text) ==
    [shipment_id |-> shipment_id, origin |-> origin,
     destination |-> destination, route |-> route, po_text |-> po_text,
     invoice_text |-> "", bol_text |-> ""]

CreateInputs ==
    {ShipmentCreate(s, "LKO", "KNP", <<>>, po) : s \in ShipmentIds, po \in {"", "X"}}
    \cup {ShipmentCreate(s, "DEL", "XXX", <<>>, "") : s \in ShipmentIds}
    \cup {ShipmentCreate(s, "LKO", "KNP", r, "") : s \in ShipmentIds, r \in SuppliedRoutes}

\* What genai_service.classify_shipment may answer within the timeout (a
\* product category), or "None" when wait_for raises.
Classifications == {"pharmaceutical", "None"}

\* Sensor readings of a checkpoint: (temperature, humidity, weight_kg).
\* taken at checkpoint.timestamp (the server clock when it is absent): one
\* submission on time and within every policy, one late and too warm.
Submissions ==
    { [reading |-> <<NoReading, NoReading, 100>>, timestamp |-> 0, tzinfo |-> "utc"],
      [reading |-> <<12, NoReading, 100>>, timestamp |-> 5, tzinfo |-> "utc"] }
CheckpointLocations == {"LKO", "KNP", "DEL"}

CheckpointInputs ==
    { [shipment_id |-> s, location_code |-> l, reading |-> m.reading,
       timestamp |-> m.timestamp, tzinfo |-> m.tzinfo] :
          s \in ShipmentIds, l \in CheckpointLocations, m \in Submissions }

\* TamperRequest: each text is optional ("None").
TamperInputs ==
    { [po_text |-> "Y", invoice_text |-> "None", bol_text |-> "None"],
      [po_text |-> "None", invoice_text |-> "None", bol_text |-> "None"] }

\* GodModeDelay: node_index is any int and delay_hours any float.
GodModeDelays == [shipment_id : ShipmentIds, node_index : {-1, 0, 2},
                  delay_hours : {7, -7}]
GodModeTemperatures == [shipment_id : ShipmentIds, location_code : {"KNP"},
                        observed_temperature : {12}]
GodModeWeights == [shipment_id : ShipmentIds, location_code : {"KNP"},
                   observed_weight_kg : {50}]

\* Outcomes of the collaborators' calls.
VerifyOutcomes == {"ok", "error"}
AppendOutcomes == {"confirmed", "failed", "error"}
\* interpret_anomaly answers an assessment, answers its own fallback dict
\* when the model call raised inside it, or does not answer within the
\* caller's timeout (or raises).
GenAIOutcomes == {"assessed", "service_error", "timeout"}

\* ------------------------------------------------------------- scheduling
\* A build in which the store's reads are real awaits (an async store
\* client): register_checkpoint can then be suspended between reading the
\* shipment and writing it back.
SuspendsAtStoreReads(callee) ==
    callee \in {"genai_service.classify_shipment",
                "genai_service.interpret_anomaly",
                "firebase_service.get_telemetry"}

\* Whether awaiting the named coroutine can suspend the handler, so that the
\* event loop may run another request before it continues.  The store and
\* ledger wrappers are coroutines without any await inside (their I/O is
\* blocking), so awaiting them runs them to completion; the GenAI calls go
\* through asyncio.wait_for / asyncio.gather and asyncio.to_thread.
Suspends(callee) ==
    callee \in {"genai_service.classify_shipment",
                "genai_service.interpret_anomaly"}

\* ------------------------------------------------------------------ ledger
\* An append that reports a transaction hash with its error.
append_checkpoint_error_with_ref(shipment_id, location_code, weight_kg, document_hash, outcome) ==
    IF contract = "None"
    THEN [tx_hash |-> "0x0", status |-> "stubbed", entries |-> chain[shipment_id]]
    ELSE IF outcome \in {"error", "failed"}
    THEN [tx_hash |-> "0xTX", status |-> outcome, entries |-> chain[shipment_id]]
    ELSE [tx_hash |-> "0xTX", status |-> "confirmed",
          entries |-> Append(chain[shipment_id],
                             [location_code |-> location_code,
                              weight_kg |-> weight_kg,
                              document_hash |-> document_hash])]

\* tx_result of append_checkpoint and the contract's checkpoints afterwards.
append_checkpoint(shipment_id, location_code, weight_kg, document_hash, outcome) ==
    IF contract = "None"
    THEN [tx_hash |-> "0x0", status |-> "stubbed", entries |-> chain[shipment_id]]
    ELSE IF outcome = "error"
    THEN [tx_hash |-> "None", status |-> "error", entries |-> chain[shipment_id]]
    ELSE IF outcome = "failed"
    THEN [tx_hash |-> "0xTX", status |-> "failed", entries |-> chain[shipment_id]]
    ELSE [tx_hash |-> "0xTX", status |-> "confirmed",
          entries |-> Append(chain[shipment_id],
                             [location_code |-> location_code,
                              weight_kg |-> weight_kg,
                              document_hash |-> document_hash])]

\* A verification that compares with the zero hash when the shipment has no
\* ledger entry.
verify_checkpoint_hash_no_first(shipment_id, expected_hash, outcome) ==
    IF contract = "None"
    THEN [verified |-> TRUE, on_chain_hash |-> "None", status |-> "stubbed"]
    ELSE IF outcome = "error"
    THEN [verified |-> FALSE, on_chain_hash |-> "None", status |-> "error"]
    ELSE LET on_chain_hash ==
                 IF Len(chain[shipment_id]) = 0 THEN "None"
                 ELSE chain[shipment_id][Len(chain[shipment_id])].document_hash
         IN [verified |-> on_chain_hash = expected_hash,
             on_chain_hash |-> on_chain_hash,
             status |-> IF on_chain_hash = expected_hash
                        THEN "verified" ELSE "hash_mismatch"]

\* verify_checkpoint_hash against the latest checkpoint stored on-chain.
verify_checkpoint_hash(shipment_id, expected_hash, outcome) ==
    IF contract = "None"
    THEN [verified |-> TRUE, on_chain_hash |-> "None", status |-> "stubbed"]
    ELSE IF outcome = "error"
    THEN [verified |-> FALSE, on_chain_hash |-> "None", status |-> "error"]
    ELSE IF Len(chain[shipment_id]) = 0
    THEN [verified |-> TRUE, on_chain_hash |-> "None", status |-> "first_checkpoint"]
    ELSE LET on_chain_hash == chain[shipment_id][Len(chain[shipment_id])].document_hash
         IN [verified |-> on_chain_hash = expected_hash,
             on_chain_hash |-> on_chain_hash,
             status |-> IF on_chain_hash = expected_hash
                        THEN "verified" ELSE "hash_mismatch"]

\* ------------------------------------------------------------- persistence
\* A Firestore query without order_by streams its documents in ascending
\* order of document id; add_telemetry names a record
\* f"{shipment_id}_{location_code}_{recorded_at}", so the records of one
\* shipment come by location code, then by the time they were stored.
FirestoreOrder(records) ==
    LET before(i, j) ==
            \/ CodeRank(records[i].location_code) < CodeRank(records[j].location_code)
            \/ (records[i].location_code = records[j].location_code /\ i < j)
        rank(i) == Cardinality({j \in 1..Len(records) : before(j, i)}) + 1
    IN [k \in 1..Len(records) |->
           records[CHOOSE i \in 1..Len(records) : rank(i) = k]]

\* A get_telemetry that answers the records oldest first on either store.
get_telemetry_oldest_first(shipment_id) ==
    SelectSeq(telemetry, LAMBDA r : r.shipment_id = shipment_id)

\* firebase_service.get_telemetry: the records of a shipment, as the
\* Firestore query streams them, or in the insertion order of the in-memory
\* dict.
get_telemetry(shipment_id) ==
    LET records == SelectSeq(telemetry, LAMBDA r : r.shipment_id = shipment_id)
    IN IF db = "firestore" THEN FirestoreOrder(records) ELSE records

\* An HTTP response: status code, HTTPException detail ("None" on success)
\* and the JSON body.
Response(op, shipment_id, code, detail, body) ==
    [op |-> op, shipment_id |-> shipment_id, code |-> code, detail |-> detail,
     body |-> body]

NoBody == [none |-> TRUE]

Init ==
    /\ shipments = [s \in {} |-> NoBody]
    /\ telemetry = << >>
    /\ anomalies = << >>
    /\ chain = [s \in ShipmentIds |-> << >>]
    /\ contract \in {"loaded", "None"}
    /\ db = "None"
    /\ tasks = << >>
    /\ injections = 0
    /\ faults = 0
    /\ response = Response("None", "None", 0, "None", NoBody)

\* n more collaborator calls fail.
Spend(n) == faults + n <= MaxFaults /\ faults' = faults + n

\* The ledger call fails (the stub makes no call).
LedgerFault(outcome) == IF contract # "None" /\ outcome # "confirmed" THEN 1 ELSE 0

\* The tasks without the i-th.
RemoveTask(i) == [k \in 1..(Len(tasks) - 1) |-> IF k < i THEN tasks[k] ELSE tasks[k + 1]]

\* ========================================================= create_shipment
\* if po_text or invoice_text or bol_text (line 57).
HasDocuments(req) == req.po_text # "" \/ req.invoice_text # "" \/ req.bol_text # ""

\* Lines 81-123 of create_shipment: build and store the shipment dict
\* (firebase_service.create_shipment overwrites), anchor the document hash,
\* record the transaction reference, answer.
CreateStore(req, route_dicts, risk_profile, append_outcome, rest_tasks) ==
    LET doc_hash == compute_doc_hash(req.po_text, req.invoice_text, req.bol_text)
        tx_result == append_checkpoint(req.shipment_id, req.origin, 0, doc_hash,
                                       append_outcome)
        shipment_data ==
            [shipment_id |-> req.shipment_id, origin |-> req.origin,
             destination |-> req.destination, route |-> route_dicts,
             risk_profile |-> risk_profile, current_status |-> "created",
             blockchain_tx_hashes |->
                 IF tx_result.tx_hash # "None" THEN <<tx_result.tx_hash>> ELSE << >>,
             po_text |-> req.po_text, invoice_text |-> req.invoice_text,
             bol_text |-> req.bol_text, doc_hash |-> doc_hash]
    IN /\ shipments' = [s \in DOMAIN shipments \cup {req.shipment_id} |->
                           IF s = req.shipment_id THEN shipment_data
                           ELSE shipments[s]]
       /\ chain' = [chain EXCEPT ![req.shipment_id] = tx_result.entries]
       /\ tasks' = rest_tasks
       /\ response' = Response("create", req.shipment_id, 200, "None",
                               [classification |-> risk_profile,
                                blockchain_tx |-> tx_result.status])
       /\ Spend(LedgerFault(append_outcome)
                + (IF risk_profile = "None" /\ HasDocuments(req) THEN 1 ELSE 0))
       /\ UNCHANGED <<telemetry, anomalies, contract, db, injections>>

\* f"No route found between {shipment.origin} and {shipment.destination}".
NoRouteDetail(req) ==
    "No route found between " \o req.origin \o " and " \o req.destination

\* POST /shipments/ up to its first await that can suspend (lines 33-68).
\* risk_profile is modelled by its product_category ("None" for None).
CreateShipment(req) ==
    LET route == IF req.route = << >>
                 THEN find_optimal_route(req.origin, req.destination, 0)
                 ELSE req.route
    IN IF req.shipment_id \in DOMAIN shipments
       THEN /\ response' = Response("create", req.shipment_id, 409,
                                    "Shipment already exists", NoBody)
            /\ UNCHANGED <<stores, contract, db, tasks, injections, faults>>
       ELSE IF route = << >>
       THEN /\ response' = Response("create", req.shipment_id, 400,
                                    NoRouteDetail(req), NoBody)
            /\ UNCHANGED <<stores, contract, db, tasks, injections, faults>>
       ELSE IF ~HasDocuments(req)
       THEN \E append_outcome \in AppendOutcomes :
                CreateStore(req, route, "None", append_outcome, tasks)
       ELSE IF Suspends("genai_service.classify_shipment")
       THEN /\ Len(tasks) < MaxTasks
            /\ tasks' = Append(tasks, [op |-> "create", pc |-> "classify_shipment",
                                       req |-> req, route |-> route])
            /\ UNCHANGED <<stores, contract, db, injections, faults, response>>
       ELSE \E classification \in Classifications, append_outcome \in AppendOutcomes :
                CreateStore(req, route, classification, append_outcome, tasks)

\* create_shipment resumed with the classification (lines 69-123).
CreateResume(i) ==
    /\ tasks[i].op = "create"
    /\ \E classification \in Classifications, append_outcome \in AppendOutcomes :
           CreateStore(tasks[i].req, tasks[i].route, classification,
                       append_outcome, RemoveTask(i))

\* ====================================================== register_checkpoint
\* The 0-based index of the first route node with the location code, or -1
\* (lines 46-51).
NodeIndex(route, location_code) ==
    LET hits == {i \in 1..Len(route) : route[i].location_code = location_code}
    IN IF hits = {} THEN -1
       ELSE (CHOOSE i \in hits : \A j \in hits : i <= j) - 1

\* if route[i].get("actual_arrival"): the node at 0-based index i is visited.
Visited(route, i) == route[i + 1].actual_arrival # NoTime

\* The in-order check with its range one short: range(node_index - 1).
EarlierUnvisitedShortRange(route, node_index) ==
    \E i \in 0..(node_index - 2) : ~Visited(route, i)

\* Lines 59-66: some node before node_index has no actual_arrival.
EarlierUnvisited(route, node_index) ==
    \E i \in 0..(node_index - 1) : ~Visited(route, i)

\* The rejections without the delivered check of lines 39-40.
CheckpointRejectionNoDelivered(req) ==
    IF req.shipment_id \notin DOMAIN shipments THEN "NotFound"
    ELSE LET shipment   == shipments[req.shipment_id]
             node_index == NodeIndex(shipment.route, req.location_code)
         IN IF node_index = -1 THEN "NotOnRoute"
            ELSE IF EarlierUnvisited(shipment.route, node_index) THEN "OutOfOrder"
            ELSE IF Visited(shipment.route, node_index) THEN "DuplicateCheckpoint"
            ELSE "None"

\* The rejections without the duplicate check of lines 68-72.
CheckpointRejectionNoDuplicate(req) ==
    IF req.shipment_id \notin DOMAIN shipments THEN "NotFound"
    ELSE LET shipment   == shipments[req.shipment_id]
             node_index == NodeIndex(shipment.route, req.location_code)
         IN IF shipment.current_status = "delivered" THEN "InvalidState"
            ELSE IF node_index = -1 THEN "NotOnRoute"
            ELSE IF EarlierUnvisited(shipment.route, node_index) THEN "OutOfOrder"
            ELSE "None"

\* Lines 34-72: the hard rejection of a submission, or "None".  The detail
\* names the error of the taxonomy the HTTPException stands for.
CheckpointRejection(req) ==
    IF req.shipment_id \notin DOMAIN shipments THEN "NotFound"
    ELSE LET shipment   == shipments[req.shipment_id]
             node_index == NodeIndex(shipment.route, req.location_code)
         IN IF shipment.current_status = "delivered" THEN "InvalidState"
            ELSE IF node_index = -1 THEN "NotOnRoute"
            ELSE IF EarlierUnvisited(shipment.route, node_index) THEN "OutOfOrder"
            ELSE IF Visited(shipment.route, node_index) THEN "DuplicateCheckpoint"
            ELSE "None"

RejectionCode(rejection) == IF rejection = "NotFound" THEN 404 ELSE 400

\* The anomaly with its two hashes the wrong way round.
TamperAnomalySwapped(req, hash_verification, current_hash) ==
    AnomalyRecord(req.shipment_id, "document_tampered", "critical",
                  [expected_hash |-> current_hash,
                   current_hash |-> hash_verification.on_chain_hash,
                   location |-> req.location_code],
                  req.location_code)

\* Lines 89-107: the staged document_tampered anomaly dict.
TamperAnomaly(req, hash_verification, current_hash) ==
    AnomalyRecord(req.shipment_id, "document_tampered", "critical",
                  [expected_hash |-> hash_verification.on_chain_hash,
                   current_hash |-> current_hash,
                   location |-> req.location_code],
                  req.location_code)

\* Lines 74-120: what the handler has computed from the shipment it read
\* when it reaches get_telemetry.
CheckpointRead(req, verify_outcome) ==
    LET shipment   == shipments[req.shipment_id]
        route      == shipment.route
        node_index == NodeIndex(route, req.location_code)
        current_hash == compute_doc_hash(shipment.po_text, shipment.invoice_text,
                                         shipment.bol_text)
        hash_verification ==
            verify_checkpoint_hash(req.shipment_id, current_hash, verify_outcome)
        expected   == route[node_index + 1].expected_arrival
    IN [req |-> req, route |-> route, node_index |-> node_index,
        product_category |->
            IF shipment.risk_profile = "None" THEN "default"
            ELSE shipment.risk_profile,
        tx_hashes |-> shipment.blockchain_tx_hashes,
        current_hash |-> current_hash,
        hash_verification |-> hash_verification,
        tamper_detected |-> ~hash_verification.verified,
        \* now - expected raises TypeError, which the handler swallows, when
        \* only one of the two datetimes carries a UTC offset; the stored
        \* expected_arrival carries one
        delay_hours |-> IF expected # NoTime /\ req.tzinfo = "utc"
                        THEN Max(req.timestamp - expected, 0)
                        ELSE 0]

\* firebase_service.update_shipment: a partial update of a stored shipment.
update_route_status(shipment_id, route, status, tx_hashes) ==
    [s \in DOMAIN shipments |->
        IF s = shipment_id
        THEN [shipments[s] EXCEPT !.route = route, !.current_status = status,
                                  !.blockchain_tx_hashes = tx_hashes]
        ELSE shipments[s]]

\* The conditions tested with anomaly_detected ahead of tamper_detected.
ResultStatusAnomalyFirst(is_final, tamper_detected, risk_anomalies) ==
    IF is_final THEN "delivered"
    ELSE IF risk_anomalies # << >> THEN "anomaly_detected"
    ELSE IF tamper_detected THEN "tamper_detected"
    ELSE "transferred"

\* The "status" of the checkpoint result (lines 254-257).
ResultStatus(is_final, tamper_detected, risk_anomalies) ==
    IF is_final THEN "delivered"
    ELSE IF tamper_detected THEN "tamper_detected"
    ELSE IF risk_anomalies # << >> THEN "anomaly_detected"
    ELSE "transferred"

\* TelemetryRecord(...).model_dump (lines 138-147).
TelemetryRecord(req) ==
    [shipment_id |-> req.shipment_id, location_code |-> req.location_code,
     temperature |-> req.reading[1], humidity |-> req.reading[2],
     weight_kg |-> req.reading[3], timestamp |-> req.timestamp]

\* A handler that never propagates the delay it has computed.
CheckpointOutcomeNoPropagation(snap, append_outcome) ==
    LET req        == snap.req
        sid        == req.shipment_id
        node_index == snap.node_index
        telemetry_records == get_telemetry(sid)
        expected_weight ==
            IF telemetry_records # << >> THEN telemetry_records[1].weight_kg
            ELSE NoReading
        risk == evaluate_checkpoint(sid, snap.product_category, req.location_code,
                    req.reading[1], req.reading[2], req.reading[3],
                    expected_weight, snap.delay_hours)
        tx_result == append_checkpoint(sid, req.location_code, req.reading[3],
                                       snap.current_hash, append_outcome)
        marked == [snap.route EXCEPT ![node_index + 1].actual_arrival = req.timestamp]
        is_final == node_index = Len(snap.route) - 1
        new_status == IF is_final THEN "delivered" ELSE "in_transit"
    IN [telemetry_data |-> TelemetryRecord(req),
        entries |-> tx_result.entries,
        tx_hashes |-> IF tx_result.tx_hash # "None"
                      THEN Append(snap.tx_hashes, tx_result.tx_hash)
                      ELSE snap.tx_hashes,
        new_status |-> new_status,
        updated_route |-> marked,
        all_anomaly_dicts |->
            risk \o (IF snap.tamper_detected
                     THEN << TamperAnomaly(req, snap.hash_verification,
                                           snap.current_hash) >>
                     ELSE << >>),
        body |-> [status |-> ResultStatus(is_final, snap.tamper_detected, risk),
                  node_index |-> node_index,
                  location |-> req.location_code,
                  shipment_status |-> new_status,
                  blockchain_tx |-> tx_result.status,
                  hash_verification |->
                      [current_hash |-> snap.current_hash,
                       on_chain_hash |-> snap.hash_verification.on_chain_hash,
                       verified |-> snap.hash_verification.verified,
                       status |-> snap.hash_verification.status],
                  anomalies |-> << >>,
                  delay_hours |-> snap.delay_hours]]

\* Lines 122-197: what the handler computes and writes once the submission
\* has passed the rejections: the risk policy's anomalies, the telemetry
\* record, the ledger anchor, the advanced route and status, the staged
\* anomalies and the result it will return.
CheckpointOutcome(snap, append_outcome) ==
    LET req        == snap.req
        sid        == req.shipment_id
        node_index == snap.node_index
        telemetry_records == get_telemetry(sid)
        expected_weight ==
            IF telemetry_records # << >> THEN telemetry_records[1].weight_kg
            ELSE NoReading
        risk == evaluate_checkpoint(sid, snap.product_category, req.location_code,
                    req.reading[1], req.reading[2], req.reading[3],
                    expected_weight, snap.delay_hours)
        tx_result == append_checkpoint(sid, req.location_code, req.reading[3],
                                       snap.current_hash, append_outcome)
        marked == [snap.route EXCEPT ![node_index + 1].actual_arrival = req.timestamp]
        is_final == node_index = Len(snap.route) - 1
        new_status == IF is_final THEN "delivered" ELSE "in_transit"
    IN [telemetry_data |-> TelemetryRecord(req),
        entries |-> tx_result.entries,
        tx_hashes |-> IF tx_result.tx_hash # "None"
                      THEN Append(snap.tx_hashes, tx_result.tx_hash)
                      ELSE snap.tx_hashes,
        new_status |-> new_status,
        updated_route |-> IF snap.delay_hours > 0 /\ ~is_final
                          THEN propagate_delay(marked, node_index, snap.delay_hours)
                          ELSE marked,
        all_anomaly_dicts |->
            risk \o (IF snap.tamper_detected
                     THEN << TamperAnomaly(req, snap.hash_verification,
                                           snap.current_hash) >>
                     ELSE << >>),
        body |-> [status |-> ResultStatus(is_final, snap.tamper_detected, risk),
                  node_index |-> node_index,
                  location |-> req.location_code,
                  shipment_status |-> new_status,
                  blockchain_tx |-> tx_result.status,
                  hash_verification |->
                      [current_hash |-> snap.current_hash,
                       on_chain_hash |-> snap.hash_verification.on_chain_hash,
                       verified |-> snap.hash_verification.verified,
                       status |-> snap.hash_verification.status],
                  anomalies |-> << >>,
                  delay_hours |-> snap.delay_hours]]

\* A handler that puts a shipment whose hash check mismatched on hold instead
\* of advancing it.
CheckpointWritesHoldingTampered(snap, outcome) ==
    /\ telemetry' = Append(telemetry, outcome.telemetry_data)
    /\ chain' = [chain EXCEPT ![snap.req.shipment_id] = outcome.entries]
    /\ shipments' = update_route_status(snap.req.shipment_id, outcome.updated_route,
                         IF snap.tamper_detected THEN "on_hold" ELSE outcome.new_status,
                         outcome.tx_hashes)
    /\ anomalies' = anomalies

\* The stores after the writes of lines 148-181.
CheckpointWrites(snap, outcome) ==
    /\ telemetry' = Append(telemetry, outcome.telemetry_data)
    /\ chain' = [chain EXCEPT ![snap.req.shipment_id] = outcome.entries]
    /\ shipments' = update_route_status(snap.req.shipment_id, outcome.updated_route,
                                        outcome.new_status, outcome.tx_hashes)
    /\ anomalies' = anomalies

\* Lines 122-197 (and 253-273 when no anomaly is staged): the writes, then the
\* answer, or the gather of the interpretations of the staged anomalies.
CheckpointCommit(snap, append_outcome, rest_tasks) ==
    LET outcome == CheckpointOutcome(snap, append_outcome)
    IN /\ Len(telemetry) < Max(MaxCheckpoints, Len(snap.route))
       /\ CheckpointWrites(snap, outcome)
       /\ UNCHANGED <<contract, db, injections>>
       /\ Spend(LedgerFault(append_outcome)
                + (IF snap.hash_verification.status = "error" THEN 1 ELSE 0))
       /\ IF outcome.all_anomaly_dicts = << >>
          THEN /\ tasks' = rest_tasks
               /\ response' = Response("checkpoint", snap.req.shipment_id, 200,
                                       "None", outcome.body)
          ELSE /\ Len(rest_tasks) < MaxTasks
               /\ tasks' = Append(rest_tasks,
                               [op |-> "checkpoint", pc |-> "gather",
                                body |-> outcome.body,
                                pending |-> outcome.all_anomaly_dicts,
                                done |-> {}])
               /\ UNCHANGED response

\* A handler that stores the telemetry record before it validates the
\* submission.
RegisterCheckpointStoringFirst(req) ==
    LET rejection == CheckpointRejection(req)
    IN IF rejection # "None"
       THEN /\ telemetry' = Append(telemetry, TelemetryRecord(req))
            /\ response' = Response("checkpoint", req.shipment_id,
                                    RejectionCode(rejection), rejection, NoBody)
            /\ UNCHANGED <<shipments, anomalies, chain, contract, db, tasks,
                           injections, faults>>
       ELSE \E verify_outcome \in VerifyOutcomes, append_outcome \in AppendOutcomes :
                CheckpointCommit(CheckpointRead(req, verify_outcome),
                                 append_outcome, tasks)

\* POST /checkpoints/ (lines 34-197, up to the gather of the interpretations).
RegisterCheckpoint(req) ==
    LET rejection == CheckpointRejection(req)
    IN IF rejection # "None"
       THEN /\ response' = Response("checkpoint", req.shipment_id,
                                    RejectionCode(rejection), rejection, NoBody)
            /\ UNCHANGED <<stores, contract, db, tasks, injections, faults>>
       ELSE IF Suspends("firebase_service.get_telemetry")
       THEN /\ Len(tasks) < MaxTasks
            /\ \E verify_outcome \in VerifyOutcomes :
                   tasks' = Append(tasks,
                                [op |-> "checkpoint", pc |-> "get_telemetry",
                                 snap |-> CheckpointRead(req, verify_outcome)])
            /\ UNCHANGED <<stores, contract, db, injections, faults, response>>
       ELSE \E verify_outcome \in VerifyOutcomes, append_outcome \in AppendOutcomes :
                CheckpointCommit(CheckpointRead(req, verify_outcome),
                                 append_outcome, tasks)

\* str.upper() on the severities in use.
Upper(severity) == IF severity = "critical" THEN "CRITICAL" ELSE severity

\* What interpret_anomaly returns when it returns: its assessment, or the
\* fallback dict of its except block.
interpret_anomaly(genai_outcome) ==
    IF genai_outcome = "service_error"
    THEN [severity_level |-> "MEDIUM", error |-> "service_error"]
    ELSE [severity_level |-> "HIGH", error |-> "None"]

\* The genai_assessment process_anomaly attaches (lines 213-240): what
\* interpret_anomaly returned, or the placeholder of the except blocks.
Assessment(anomaly_dict, genai_outcome) ==
    IF genai_outcome \in {"assessed", "service_error"}
    THEN interpret_anomaly(genai_outcome)
    ELSE [severity_level |-> Upper(anomaly_dict.severity), error |-> genai_outcome]

\* One process_anomaly task of the gather runs to its end (lines 200-243):
\* interpret, attach the assessment, store the anomaly; the handler answers
\* (lines 246-273) once every task is done.
ProcessAnomaly(i, k, genai_outcome) ==
    LET task == tasks[i]
        anomaly_dict == [task.pending[k] EXCEPT
                            !.genai_assessment = Assessment(task.pending[k], genai_outcome)]
        pending == [task.pending EXCEPT ![k] = anomaly_dict]
        done == task.done \cup {k}
    IN /\ k \in 1..Len(task.pending)
       /\ k \notin task.done
       /\ anomalies' = Append(anomalies, anomaly_dict)
       /\ Spend(IF genai_outcome = "assessed" THEN 0 ELSE 1)
       /\ UNCHANGED <<shipments, telemetry, chain, contract, db, injections>>
       /\ IF done = 1..Len(task.pending)
          THEN /\ tasks' = RemoveTask(i)
               /\ response' = Response("checkpoint", pending[1].shipment_id, 200,
                                       "None", [task.body EXCEPT !.anomalies = pending])
          ELSE /\ tasks' = [tasks EXCEPT ![i] = [task EXCEPT !.pending = pending,
                                                              !.done = done]]
               /\ UNCHANGED response

\* A suspended register_checkpoint continues.
CheckpointResume(i) ==
    /\ tasks[i].op = "checkpoint"
    /\ IF tasks[i].pc = "get_telemetry"
       THEN \E append_outcome \in AppendOutcomes :
                CheckpointCommit(tasks[i].snap, append_outcome, RemoveTask(i))
       ELSE \E k \in 1..Len(tasks[i].pending), genai_outcome \in GenAIOutcomes :
                ProcessAnomaly(i, k, genai_outcome)

\* ========================================================= tamper_shipment
\* PUT /shipments/{shipment_id}/tamper (lines 176-220): no ledger write.
TamperShipment(shipment_id, tamper) ==
    IF shipment_id \notin DOMAIN shipments
    THEN /\ response' = Response("tamper", shipment_id, 404, "Shipment not found",
                                 NoBody)
         /\ UNCHANGED <<stores, contract, db, tasks, injections, faults>>
    ELSE IF shipments[shipment_id].current_status = "delivered"
    THEN /\ response' = Response("tamper", shipment_id, 400,
                                 "Cannot tamper delivered shipment", NoBody)
         /\ UNCHANGED <<stores, contract, db, tasks, injections, faults>>
    ELSE IF tamper.po_text = "None" /\ tamper.invoice_text = "None"
            /\ tamper.bol_text = "None"
    THEN /\ response' = Response("tamper", shipment_id, 400, "No changes provided",
                                 NoBody)
         /\ UNCHANGED <<stores, contract, db, tasks, injections, faults>>
    ELSE LET shipment == shipments[shipment_id]
             new_po  == IF tamper.po_text # "None" THEN tamper.po_text
                        ELSE shipment.po_text
             new_inv == IF tamper.invoice_text # "None" THEN tamper.invoice_text
                        ELSE shipment.invoice_text
             new_bol == IF tamper.bol_text # "None" THEN tamper.bol_text
                        ELSE shipment.bol_text
         IN /\ shipments' = [shipments EXCEPT ![shipment_id] =
                                [shipment EXCEPT !.po_text = new_po,
                                                 !.invoice_text = new_inv,
                                                 !.bol_text = new_bol]]
            /\ response' = Response("tamper", shipment_id, 200, "None",
                               [status |-> "tampered",
                                original_hash |-> shipment.doc_hash,
                                tampered_hash |-> compute_doc_hash(new_po, new_inv,
                                                                   new_bol)])
            /\ UNCHANGED <<telemetry, anomalies, chain, contract, db, tasks, injections,
                           faults>>

\* ================================================================ god mode
\* The anomaly loop of a god-mode endpoint up to _safe_genai (evaluate_checkpoint
\* yields at most one anomaly for the readings these endpoints pass): the
\* anomaly is stored, then the handler awaits the interpretation.
GodModeAnomalies(op, shipment_id, found, body) ==
    IF found = << >>
    THEN /\ response' = Response(op, shipment_id, 200, "None", body)
         /\ UNCHANGED <<anomalies, tasks>>
    ELSE /\ Len(tasks) < MaxTasks
         /\ anomalies' = Append(anomalies, found[1])
         /\ tasks' = Append(tasks, [op |-> op, pc |-> "_safe_genai",
                                    shipment_id |-> shipment_id,
                                    key |-> Len(anomalies) + 1, body |-> body])
         /\ UNCHANGED response

\* POST /god-mode/delay (lines 76-121).  A risk_profile of None has no .get
\* and an index below -len(route) is out of range: unhandled, HTTP 500.
InjectDelay(payload) ==
    LET sid == payload.shipment_id
    IN IF sid \notin DOMAIN shipments
       THEN /\ response' = Response("inject_delay", sid, 404, "Shipment not found",
                                    NoBody)
            /\ UNCHANGED <<stores, contract, db, tasks, injections, faults>>
       ELSE IF payload.node_index >= Len(shipments[sid].route)
       THEN /\ response' = Response("inject_delay", sid, 400, "Invalid node index",
                                    NoBody)
            /\ UNCHANGED <<stores, contract, db, tasks, injections, faults>>
       ELSE IF shipments[sid].risk_profile = "None"
       THEN /\ response' = Response("inject_delay", sid, 500, "AttributeError",
                                    NoBody)
            /\ UNCHANGED <<stores, contract, db, tasks, injections, faults>>
       ELSE IF payload.node_index < -Len(shipments[sid].route)
       THEN /\ response' = Response("inject_delay", sid, 500, "IndexError", NoBody)
            /\ UNCHANGED <<stores, contract, db, tasks, injections, faults>>
       ELSE LET route == shipments[sid].route
                node  == route[(payload.node_index % Len(route)) + 1]
                found == evaluate_checkpoint(sid, shipments[sid].risk_profile,
                             node.location_code, NoReading, NoReading, 0,
                             NoReading, payload.delay_hours)
                updated_route == propagate_delay(route, payload.node_index,
                                                 payload.delay_hours)
            IN /\ injections < MaxInjections
               /\ injections' = injections + 1
               /\ shipments' = [shipments EXCEPT ![sid].route = updated_route]
               /\ UNCHANGED <<telemetry, chain, contract, db, faults>>
               /\ GodModeAnomalies("inject_delay", sid, found,
                      [status |-> "delay_injected", anomalies |-> found,
                       genai_assessments |-> << >>])

\* POST /god-mode/temperature and POST /god-mode/weight (lines 137-191 and
\* 195-255) differ in the reading they evaluate and the tag they anchor.
InjectReading(op, tag, status, payload, temperature, weight_kg, expected_weight) ==
    LET sid == payload.shipment_id
    IN IF sid \notin DOMAIN shipments
       THEN /\ response' = Response(op, sid, 404, "Shipment not found", NoBody)
            /\ UNCHANGED <<stores, contract, db, tasks, injections, faults>>
       ELSE IF shipments[sid].risk_profile = "None"
       THEN /\ response' = Response(op, sid, 500, "AttributeError", NoBody)
            /\ UNCHANGED <<stores, contract, db, tasks, injections, faults>>
       ELSE LET found == evaluate_checkpoint(sid, shipments[sid].risk_profile,
                             payload.location_code, temperature, NoReading,
                             weight_kg, expected_weight, 0)
            IN /\ injections < MaxInjections
               /\ injections' = injections + 1
               /\ \E append_outcome \in AppendOutcomes :
                      /\ chain' = [chain EXCEPT ![sid] =
                             append_checkpoint(sid, payload.location_code,
                                 weight_kg,
                                 injection_hash(sid, tag, payload.location_code),
                                 append_outcome).entries]
                      /\ Spend(LedgerFault(append_outcome))
               /\ UNCHANGED <<shipments, telemetry, contract, db>>
               /\ GodModeAnomalies(op, sid, found,
                      [status |-> status, anomalies |-> found,
                       genai_assessments |-> << >>])

InjectTemperature(payload) ==
    InjectReading("inject_temperature", "temp_breach",
                  "temperature_breach_injected", payload,
                  payload.observed_temperature, 0, NoReading)

\* expected_weight = telemetry[0]["weight_kg"] if telemetry else 1000.
InjectWeight(payload) ==
    InjectReading("inject_weight_loss", "weight_loss", "weight_loss_injected",
                  payload, NoReading, payload.observed_weight_kg,
                  IF get_telemetry(payload.shipment_id) # << >>
                  THEN get_telemetry(payload.shipment_id)[1].weight_kg
                  ELSE 1000)

\* A god-mode handler resumed after _safe_genai: a truthy assessment is
\* attached and the anomaly stored again under the same key; then it answers.
GodModeResume(i) ==
    LET task == tasks[i]
    IN /\ task.pc = "_safe_genai"
       /\ tasks' = RemoveTask(i)
       /\ UNCHANGED <<shipments, telemetry, chain, contract, db, injections>>
       /\ \E genai_outcome \in GenAIOutcomes :
              /\ Spend(IF genai_outcome = "assessed" THEN 0 ELSE 1)
              /\ IF genai_outcome # "timeout"
                 THEN /\ anomalies' = [anomalies EXCEPT
                                          ![task.key].genai_assessment =
                                              interpret_anomaly(genai_outcome)]
                      /\ response' = Response(task.op, task.shipment_id, 200,
                                         "None",
                                         [task.body EXCEPT !.genai_assessments =
                                              << interpret_anomaly(genai_outcome) >>])
                 ELSE /\ UNCHANGED anomalies
                      /\ response' = Response(task.op, task.shipment_id, 200,
                                              "None", task.body)

\* ============================================================ the program
Next ==
    \/ \E req \in CreateInputs : CreateShipment(req)
    \/ \E i \in 1..Len(tasks) : CreateResume(i)
    \/ \E req \in CheckpointInputs : RegisterCheckpoint(req)
    \/ \E i \in 1..Len(tasks) : CheckpointResume(i)
    \/ \E s \in ShipmentIds, t \in TamperInputs : TamperShipment(s, t)
    \/ \E payload \in GodModeDelays : InjectDelay(payload)
    \/ \E payload \in GodModeTemperatures : InjectTemperature(payload)
    \/ \E payload \in GodModeWeights : InjectWeight(payload)
    \/ \E i \in 1..Len(tasks) : GodModeResume(i)

Spec == Init /\ [][Next]_vars

\* ------------------------------------------------------- route generation
\* Creations that ask for an auto-generated route between any two codes, known
\* to the graph or not, without document texts.
RouteCreateInputs ==
    {ShipmentCreate(s, a, b, << >>, "") : s \in ShipmentIds, a \in NODES, b \in NODES}
    \cup {ShipmentCreate(s, e[1], e[2], << >>, "") :
              s \in ShipmentIds,
              e \in {<<"DEL", "XXX">>, <<"XXX", "DEL">>, <<"XXX", "XXX">>}}

NextRoute == \E req \in RouteCreateInputs : CreateShipment(req)

\* POST /shipments/ for every pair of endpoints.
RouteSpec == Init /\ [][NextRoute]_vars

\* ------------------------------------------------------- risk evaluation
\* Creations of a three-node journey (Lucknow, Kanpur, Bhopal) with an
\* auto-generated route, with and without documents, and of the two-node
\* journey whose supplied route has no expected_arrival at Kanpur.
RiskCreateInputs ==
    {ShipmentCreate(s, "LKO", "BPL", << >>, po) : s \in ShipmentIds, po \in {"", "X"}}
    \cup {ShipmentCreate(s, "LKO", "KNP", r, "") : s \in ShipmentIds, r \in SuppliedRoutes}

\* A checkpoint submission.
CheckpointInput(shipment_id, location_code, temperature, weight_kg, timestamp, tzinfo) ==
    [shipment_id |-> shipment_id, location_code |-> location_code,
     reading |-> <<temperature, NoReading, weight_kg>>,
     timestamp |-> timestamp, tzinfo |-> tzinfo]

\* Temperatures around the bounds and the severity thresholds of the
\* pharmaceutical range (2, 8) and of the default range (-20, 50), and none.
RiskTemperatures ==
    {NoReading, 2, 5, 8, 1, -1, -2, -4, -5, 9, 11, 12, 14, 15,
     -20, 50, -21, 51, 85, 86, 120, 121}

\* Weights around the tolerance thresholds against a first reading of 100:
\* 2 and 4 percent (pharmaceutical), 10 and 20 percent (default).
RiskWeights == {100, 98, 97, 96, 95, 102, 103, 104, 105, 90, 89, 80, 79, 111, 121}

\* Checkpoint times at Kanpur, expected at hour 3: early, on time, and late
\* around 6 and 12 hours (pharmaceutical) and 72 and 144 hours (default).
RiskTimes == {2, 3, 9, 10, 15, 16, 75, 76, 147, 148}

\* The first checkpoint weighs 100 or nothing; the second sweeps the
\* temperature, the weight and the time, with and without a UTC offset; the
\* third weighs what the second may have weighed or what the first did, or
\* comes 13 hours after the time the route was created with.
RiskCheckpointInputs ==
    {CheckpointInput(s, "LKO", NoReading, w, 0, "utc") : s \in ShipmentIds, w \in {100, 0}}
    \cup {CheckpointInput(s, "KNP", t, 100, 3, "utc") : s \in ShipmentIds, t \in RiskTemperatures}
    \cup {CheckpointInput(s, "KNP", NoReading, w, 3, "utc") : s \in ShipmentIds, w \in RiskWeights}
    \cup {CheckpointInput(s, "KNP", NoReading, 100, t, "utc") : s \in ShipmentIds, t \in RiskTimes}
    \cup {CheckpointInput(s, "KNP", NoReading, 100, t, "None") : s \in ShipmentIds, t \in {3, 16}}
    \cup {CheckpointInput(s, "BPL", NoReading, w, 12, "utc") : s \in ShipmentIds, w \in {90, 100}}
    \cup {CheckpointInput(s, "BPL", NoReading, 100, 25, "utc") : s \in ShipmentIds}

\* init_firebase: the store is Firestore when the credentials are there,
\* the in-memory dicts otherwise.  The ledger runs as its stub.
RiskInit ==
    /\ shipments = [s \in {} |-> NoBody]
    /\ telemetry = << >>
    /\ anomalies = << >>
    /\ chain = [s \in ShipmentIds |-> << >>]
    /\ contract = "None"
    /\ db \in {"firestore", "None"}
    /\ tasks = << >>
    /\ injections = 0
    /\ faults = 0
    /\ response = Response("None", "None", 0, "None", NoBody)

NextRisk ==
    \/ \E req \in RiskCreateInputs : CreateShipment(req)
    \/ \E i \in 1..Len(tasks) : CreateResume(i)
    \/ \E req \in RiskCheckpointInputs : RegisterCheckpoint(req)
    \/ \E i \in 1..Len(tasks) : CheckpointResume(i)

\* A journey of creation and checkpoints under every reading of the sweeps.
RiskSpec == RiskInit /\ [][NextRisk]_vars

\* ============================================================= properties
\* The stored documents' hash, as register_checkpoint recomputes it.
CurrentHash(s) ==
    compute_doc_hash(shipments[s].po_text, shipments[s].invoice_text,
                     shipments[s].bol_text)

\* The hash of the shipment's latest ledger entry (chain[s] is not empty).
LatestHash(s) == chain[s][Len(chain[s])].document_hash

\* The visited nodes of the route are its first ones.
PrefixForm(route) ==
    \A i \in 1..Len(route) :
        route[i].actual_arrival # NoTime
            => \A j \in 1..(i - 1) : route[j].actual_arrival # NoTime

\* Some node before the 0-based index n has no actual_arrival.
UnvisitedBefore(route, n) == \E j \in 1..n : route[j].actual_arrival = NoTime

\* The result an accepting register_checkpoint step has computed: the body of
\* its answer, or of the gather it has just started.
ReportedResult ==
    IF Len(tasks') > Len(tasks) THEN tasks'[Len(tasks')].body ELSE response'.body

\* The anomalies the accepting step has staged for interpretation.
StagedAnomalies ==
    IF Len(tasks') > Len(tasks) THEN tasks'[Len(tasks')].pending ELSE << >>

\* The step accepts the submission: its telemetry record is stored.
Accepts(req) == telemetry' = Append(telemetry, TelemetryRecord(req))

\* The step is register_checkpoint rejecting the submission with the detail,
\* writing nothing.
RejectedWith(req, detail) ==
    /\ response' = Response("checkpoint", req.shipment_id,
                            IF detail = "NotFound" THEN 404 ELSE 400, detail, NoBody)
    /\ UNCHANGED stores

\* C1: in every reachable state the visited nodes of every shipment's route
\* form a prefix of the route: a node has an actual_arrival only if every
\* node before it has one.
C1_VisitedPrefix ==
    \A s \in DOMAIN shipments : PrefixForm(shipments[s].route)

StatusRank(status) ==
    CASE status = "created" -> 0
      [] status = "in_transit" -> 1
      [] status = "delivered" -> 2

\* C3: across any interleaving of operations the current_status of a shipment
\* only moves forward along created -> in_transit -> delivered.
C3_StatusForward ==
    [][\A s \in DOMAIN shipments :
          s \in DOMAIN shipments'
              => StatusRank(shipments'[s].current_status)
                     >= StatusRank(shipments[s].current_status)]_vars

\* C4: a checkpoint submitted for a delivered shipment is rejected with
\* InvalidState, whatever its location_code, and the rejection changes
\* nothing.
C4_DeliveredRejects ==
    [][\A req \in CheckpointInputs :
          (/\ req.shipment_id \in DOMAIN shipments
           /\ shipments[req.shipment_id].current_status = "delivered"
           /\ RegisterCheckpoint(req))
              => RejectedWith(req, "InvalidState")]_vars

\* A checkpoint for a delivered shipment has been answered.
C4_Witness ==
    /\ response.op = "checkpoint"
    /\ response.detail = "InvalidState"
    /\ \E s \in DOMAIN shipments : shipments[s].current_status = "delivered"

\* C5: a checkpoint submitted for route node i while some node before i has
\* no actual_arrival is rejected with OutOfOrder and mutates no state.
C5_OutOfOrderRejects ==
    [][\A req \in CheckpointInputs :
          (/\ req.shipment_id \in DOMAIN shipments
           /\ LET route == shipments[req.shipment_id].route
                  n     == NodeIndex(route, req.location_code)
              IN n >= 0 /\ UnvisitedBefore(route, n)
           /\ RegisterCheckpoint(req))
              => RejectedWith(req, "OutOfOrder")]_vars

\* An out-of-order checkpoint has been answered.
C5_Witness ==
    /\ response.op = "checkpoint"
    /\ response.detail = "OutOfOrder"
    /\ \E s \in DOMAIN shipments : shipments[s].route[1].actual_arrival = NoTime

\* The detail of the rejection of a checkpoint for an already visited node:
\* the first check of the handler that fires.
VisitedNodeRejection(req) ==
    LET route == shipments[req.shipment_id].route
    IN IF shipments[req.shipment_id].current_status = "delivered" THEN "InvalidState"
       ELSE IF UnvisitedBefore(route, NodeIndex(route, req.location_code))
       THEN "OutOfOrder"
       ELSE "DuplicateCheckpoint"

\* The submission names a node of the stored route that has an actual_arrival.
ForVisitedNode(req) ==
    /\ req.shipment_id \in DOMAIN shipments
    /\ LET route == shipments[req.shipment_id].route
           n     == NodeIndex(route, req.location_code)
       IN n >= 0 /\ route[n + 1].actual_arrival # NoTime

\* No step that accepts a checkpoint changes an actual_arrival that is set.
ArrivalsKept ==
    telemetry' # telemetry =>
        \A s \in DOMAIN shipments : \A i \in 1..Len(shipments[s].route) :
            shipments[s].route[i].actual_arrival # NoTime
                => /\ s \in DOMAIN shipments'
                   /\ Len(shipments'[s].route) = Len(shipments[s].route)
                   /\ shipments'[s].route[i].actual_arrival
                          = shipments[s].route[i].actual_arrival

\* C6 (as amended): a second checkpoint for a route node that already has an
\* actual_arrival is always rejected and changes nothing, with
\* DuplicateCheckpoint unless an earlier check of the handler fires first
\* (InvalidState once the shipment is delivered, OutOfOrder while a node
\* before it is unvisited); no checkpoint submission changes an
\* actual_arrival that is set.
C6_VisitedNodeRejected ==
    [][/\ \A req \in CheckpointInputs :
              (/\ ForVisitedNode(req)
               /\ RegisterCheckpoint(req))
                  => RejectedWith(req, VisitedNodeRejection(req))
       /\ ArrivalsKept]_vars

\* A second checkpoint for a visited node of a shipment in transit has been
\* answered.
C6_Witness ==
    /\ response.op = "checkpoint"
    /\ response.detail = "DuplicateCheckpoint"
    /\ \E s \in DOMAIN shipments :
           /\ shipments[s].current_status = "in_transit"
           /\ shipments[s].route[1].actual_arrival # NoTime

\* C6 (as stated): a second checkpoint for a route node that already has an
\* actual_arrival is rejected with DuplicateCheckpoint (here for routes whose
\* visited nodes form a prefix), and no actual_arrival is overwritten by a
\* checkpoint.
C6_AsStated ==
    [][/\ \A req \in CheckpointInputs :
              (/\ ForVisitedNode(req)
               /\ PrefixForm(shipments[req.shipment_id].route)
               /\ RegisterCheckpoint(req))
                  => RejectedWith(req, "DuplicateCheckpoint")
       /\ ArrivalsKept]_vars

\* C7: every hard rejection of a checkpoint (NotFound, InvalidState,
\* NotOnRoute, OutOfOrder, DuplicateCheckpoint) happens before any write: the
\* shipments, the telemetry, the anomalies and the ledger are the same before
\* and after the rejected submission.
C7_RejectionWritesNothing ==
    [][\A req \in CheckpointInputs :
          (/\ CheckpointRejection(req) # "None"
           /\ RegisterCheckpoint(req))
              => /\ CheckpointRejection(req) \in
                        {"NotFound", "InvalidState", "NotOnRoute", "OutOfOrder",
                         "DuplicateCheckpoint"}
                 /\ RejectedWith(req, CheckpointRejection(req))]_vars

\* A checkpoint off the route has been rejected when the stores hold a
\* shipment, telemetry and ledger entries.
C7_Witness ==
    /\ response.op = "checkpoint"
    /\ response.detail = "NotOnRoute"
    /\ telemetry # << >>
    /\ \E s \in DOMAIN shipments : chain[s] # << >>

\* The hashes create_shipment and register_checkpoint can anchor.
DocumentHashes ==
    {compute_doc_hash(po, inv, bol) : po \in DocTexts, inv \in {""}, bol \in {""}}

\* C8: after any sequence of operations the hash the ledger's verify compares
\* against (that of the shipment's latest entry) is the document hash
\* anchored by the most recent accepted checkpoint, or the one anchored at
\* creation if no checkpoint has been accepted; stated for the behaviours in
\* which no ledger call has failed.
C8_LatestIsCheckpointAnchor ==
    \A s \in DOMAIN shipments :
        (contract = "loaded" /\ faults = 0 /\ chain[s] # << >>)
            => LET latest == chain[s][Len(chain[s])]
                   accepted == get_telemetry(s)
               IN IF accepted = << >>
                  THEN /\ latest.document_hash = shipments[s].doc_hash
                       /\ latest.location_code = shipments[s].origin
                  ELSE /\ latest.document_hash \in DocumentHashes
                       /\ latest.location_code
                              = accepted[Len(accepted)].location_code

\* The submission is the first checkpoint on a freshly created shipment whose
\* document texts are those it was created with.
FirstOnFresh(req) ==
    /\ req.shipment_id \in DOMAIN shipments
    /\ shipments[req.shipment_id].current_status = "created"
    /\ get_telemetry(req.shipment_id) = << >>
    /\ CurrentHash(req.shipment_id) = shipments[req.shipment_id].doc_hash
    /\ CheckpointRejection(req) = "None"

\* C9: the first checkpoint on a freshly created shipment (document texts
\* unchanged since creation) always reports verified = true.
C9_FirstCheckpointVerified ==
    [][\A req \in CheckpointInputs :
          (FirstOnFresh(req) /\ Accepts(req))
              => ReportedResult.hash_verification.verified]_vars

\* The document texts were changed after creation, their hash differs from
\* the last anchored one, and the submission is accepted.
AfterTextChange(req) ==
    /\ req.shipment_id \in DOMAIN shipments
    /\ contract = "loaded"
    /\ chain[req.shipment_id] # << >>
    /\ CurrentHash(req.shipment_id) # LatestHash(req.shipment_id)
    /\ CurrentHash(req.shipment_id) # shipments[req.shipment_id].doc_hash
    /\ CheckpointRejection(req) = "None"

\* The step reports verified = false and stages a document_tampered anomaly of
\* critical severity with the given on-chain hash, the current hash and the
\* location code.
ReportsTamper(req, on_chain_hash) ==
    /\ ~ReportedResult.hash_verification.verified
    /\ \E k \in 1..Len(StagedAnomalies) :
           StagedAnomalies[k] =
               [shipment_id |-> req.shipment_id,
                anomaly_type |-> "document_tampered",
                severity |-> "critical",
                details |-> [expected_hash |-> on_chain_hash,
                             current_hash |-> CurrentHash(req.shipment_id),
                             location |-> req.location_code],
                location_code |-> req.location_code,
                resolved |-> FALSE,
                genai_assessment |-> NoAssessment]

\* The anomalies of a checkpoint's answer are in the anomaly store, each with
\* the assessment the answer shows.
AnswerRecorded ==
    (response' # response /\ response'.op = "checkpoint" /\ response'.code = 200)
        => \A k \in 1..Len(response'.body.anomalies) :
               \E j \in 1..Len(anomalies') :
                   anomalies'[j] = response'.body.anomalies[k]

\* C10 (as amended): if the document text was changed so that its hash
\* differs from the last anchored hash and a checkpoint is then accepted, the
\* checkpoint reports verified = false and records a document_tampered
\* anomaly of critical severity carrying the current hash, the location code
\* and the on-chain hash the ledger returned: the last anchored hash, or none
\* when the ledger's read itself failed.
C10_TamperReported ==
    [][/\ \A req \in CheckpointInputs :
              (AfterTextChange(req) /\ Accepts(req))
                  => ReportsTamper(req,
                         IF ReportedResult.hash_verification.status = "error"
                         THEN "None" ELSE LatestHash(req.shipment_id))
       /\ AnswerRecorded]_vars

\* A checkpoint has answered verified = false after a text change, and its
\* document_tampered anomaly, carrying the on-chain hash, is stored.
C10_Witness ==
    /\ response.op = "checkpoint"
    /\ response.code = 200
    /\ ~response.body.hash_verification.verified
    /\ response.body.hash_verification.status = "hash_mismatch"
    /\ \E j \in 1..Len(anomalies) :
           /\ anomalies[j].anomaly_type = "document_tampered"
           /\ anomalies[j].severity = "critical"
           /\ anomalies[j].details.expected_hash
                  = response.body.hash_verification.on_chain_hash
           /\ anomalies[j].details.current_hash
                  = response.body.hash_verification.current_hash
           /\ anomalies[j].details.expected_hash # "None"

\* C10 (as stated): the anomaly always carries the on-chain hash.
C10_AsStated ==
    [][/\ \A req \in CheckpointInputs :
              (AfterTextChange(req) /\ Accepts(req))
                  => ReportsTamper(req, LatestHash(req.shipment_id))
       /\ AnswerRecorded]_vars

\* The snapshot of the submission had its hash check come out clean.
CleanRead(req) ==
    LET snap == CheckpointRead(req, "ok")
    IN [snap EXCEPT !.tamper_detected = FALSE,
                    !.hash_verification =
                        [verified |-> TRUE, on_chain_hash |-> snap.current_hash,
                         status |-> "verified"]]

\* The ledger entry a checkpoint appends for the submission.
AnchorOf(req) ==
    [location_code |-> req.location_code, weight_kg |-> req.reading[3],
     document_hash |-> CurrentHash(req.shipment_id)]

\* The step accepts the submission although its hash check did not verify.
AcceptsMismatch(req) ==
    /\ req.shipment_id \in DOMAIN shipments
    /\ Accepts(req)
    /\ ~ReportedResult.hash_verification.verified

\* C11: a checkpoint whose hash check mismatches is processed to completion:
\* the submitted node gets its actual_arrival, the current hash is handed to
\* the ledger (and is the new latest entry when the append is confirmed), the
\* status becomes delivered when the node is the last of the route and
\* in_transit otherwise, and the stores are written exactly as for the same
\* submission with a clean hash check.
C11_MismatchProcessed ==
    [][\A req \in CheckpointInputs :
          AcceptsMismatch(req) =>
              LET s     == req.shipment_id
                  route == shipments[s].route
                  n     == NodeIndex(route, req.location_code)
                  status == IF n = Len(route) - 1 THEN "delivered" ELSE "in_transit"
              IN /\ shipments'[s].route[n + 1].actual_arrival = req.timestamp
                 /\ shipments'[s].current_status = status
                 /\ ReportedResult.shipment_status = status
                 /\ chain'[s] = IF ReportedResult.blockchain_tx = "confirmed"
                                THEN Append(chain[s], AnchorOf(req))
                                ELSE chain[s]
                 /\ \E a \in AppendOutcomes :
                        CheckpointWrites(CleanRead(req),
                                         CheckpointOutcome(CleanRead(req), a))]_vars

\* A checkpoint at the last route node has answered delivered with a hash
\* mismatch: the shipment is delivered and the mismatching hash is anchored.
C11_Witness ==
    /\ response.op = "checkpoint"
    /\ response.code = 200
    /\ response.body.hash_verification.status = "hash_mismatch"
    /\ response.body.status = "delivered"
    /\ \E s \in DOMAIN shipments :
           /\ shipments[s].current_status = "delivered"
           /\ \A i \in 1..Len(shipments[s].route) :
                  shipments[s].route[i].actual_arrival # NoTime
           /\ chain[s] # << >>
           /\ LatestHash(s) = response.body.hash_verification.current_hash
           /\ LatestHash(s) # shipments[s].doc_hash

\* The latest accepted checkpoint of the shipment recorded a document_tampered
\* anomaly for the hash the stored document texts still have.
PreviousMismatch(s) ==
    LET accepted == get_telemetry(s)
    IN /\ accepted # << >>
       /\ \E j \in 1..Len(anomalies) :
              /\ anomalies[j].anomaly_type = "document_tampered"
              /\ anomalies[j].shipment_id = s
              /\ anomalies[j].location_code = accepted[Len(accepted)].location_code
              /\ anomalies[j].details.current_hash = CurrentHash(s)

\* C12: the hash an accepted checkpoint hands to the ledger is the hash it
\* verified in the same submission, and, no ledger or GenAI call having
\* failed, the checkpoint accepted next after one that reported a mismatch,
\* with the document texts as that one read them, reports verified = true.
C12_NextVerifies ==
    [][\A req \in CheckpointInputs :
          (/\ req.shipment_id \in DOMAIN shipments
           /\ contract = "loaded"
           /\ faults' = 0
           /\ Accepts(req))
              => /\ chain'[req.shipment_id]
                        = Append(chain[req.shipment_id],
                              [AnchorOf(req) EXCEPT !.document_hash =
                                   ReportedResult.hash_verification.current_hash])
                 /\ PreviousMismatch(req.shipment_id)
                        => ReportedResult.hash_verification.verified]_vars

\* What verification answers for a shipment without ledger entries.
NoEntryAnswer(outcome) ==
    [verified |-> (contract = "None" \/ outcome = "ok"),
     on_chain_hash |-> "None",
     status |-> IF contract = "None" THEN "stubbed"
                ELSE IF outcome = "error" THEN "error"
                ELSE "first_checkpoint"]

\* C13 (as amended): while the ledger holds no entry for a shipment,
\* verification answers, for every hash value, verified = true with status
\* first_checkpoint when the ledger's read succeeds, verified = true with
\* status stubbed when no ledger is configured, and verified = false with
\* status error when the read fails; it never carries an on-chain hash.
C13_NoEntryVerification ==
    \A s \in ShipmentIds :
        chain[s] = << >> =>
            \A h \in DocumentHashes, outcome \in VerifyOutcomes :
                verify_checkpoint_hash(s, h, outcome) = NoEntryAnswer(outcome)

\* A checkpoint has been verified against a ledger without entries for its
\* shipment, whose document texts are not those it was created with.
C13_Witness ==
    /\ response.op = "checkpoint"
    /\ response.code = 200
    /\ response.body.hash_verification.status = "first_checkpoint"
    /\ response.body.hash_verification.verified
    /\ response.body.hash_verification.current_hash
           # shipments[response.shipment_id].doc_hash

\* C13 (as stated): while the ledger holds no entry for a shipment,
\* verification answers verified = true with status first_checkpoint for
\* every hash value.
C13_AsStated ==
    \A s \in ShipmentIds :
        chain[s] = << >> =>
            \A h \in DocumentHashes, outcome \in VerifyOutcomes :
                /\ verify_checkpoint_hash(s, h, outcome).verified
                /\ verify_checkpoint_hash(s, h, outcome).status = "first_checkpoint"

\* The 0-based index of the node a god-mode delay names (a negative index
\* counts from the end of the route).
TriggeringNode(route, node_index) ==
    IF node_index < 0 THEN Len(route) + node_index ELSE node_index

\* In the step, the nodes of the shipment's route up to the 0-based index n
\* keep their eta and expected_arrival, and no node's eta or expected_arrival
\* moves to an earlier time.
ShiftsOnlyAfter(s, n) ==
    /\ Len(shipments'[s].route) = Len(shipments[s].route)
    /\ \A i \in 1..Len(shipments[s].route) :
           LET before == shipments[s].route[i]
               after  == shipments'[s].route[i]
           IN /\ after.eta >= before.eta
              /\ after.expected_arrival >= before.expected_arrival
              /\ i <= n + 1 => /\ after.eta = before.eta
                               /\ after.expected_arrival = before.expected_arrival

\* C14: under every operation that propagates a delay (an accepted checkpoint,
\* a god-mode delay injection with any node_index and delay_hours it accepts)
\* only the eta and expected_arrival of nodes after the triggering node change
\* and none of them moves to an earlier time.
C14_DelayOnlyForward ==
    [][/\ \A req \in CheckpointInputs :
              (req.shipment_id \in DOMAIN shipments /\ Accepts(req))
                  => ShiftsOnlyAfter(req.shipment_id,
                         NodeIndex(shipments[req.shipment_id].route,
                                   req.location_code))
       /\ \A payload \in GodModeDelays :
              (/\ injections' # injections
               /\ payload.shipment_id \in DOMAIN shipments
               /\ InjectDelay(payload))
                  => ShiftsOnlyAfter(payload.shipment_id,
                         TriggeringNode(shipments[payload.shipment_id].route,
                                        payload.node_index))]_vars

\* propagate_delay(route, i, d) is the route with nodes 0..i as they are and,
\* in every later node, each of eta and expected_arrival that is present d
\* hours later.
PropagatedBy(route, i, d) ==
    LET out == propagate_delay(route, i, d)
    IN /\ Len(out) = Len(route)
       /\ \A j \in 1..Len(route) :
              /\ out[j].location_code = route[j].location_code
              /\ out[j].name = route[j].name
              /\ out[j].actual_arrival = route[j].actual_arrival
              /\ j - 1 <= i => out[j] = route[j]
              /\ j - 1 > i =>
                     /\ out[j].eta = IF route[j].eta = NoTime THEN NoTime
                                     ELSE route[j].eta + d
                     /\ out[j].expected_arrival =
                            IF route[j].expected_arrival = NoTime THEN NoTime
                            ELSE route[j].expected_arrival + d

\* C15: for every stored route, every node index i of it (and the index past
\* its end) and every delay d >= 0, propagate_delay(route, i, d) leaves nodes
\* 0..i as they are and adds exactly d hours to each eta and expected_arrival
\* present in the nodes after i, leaving absent ones absent and
\* location_code, name and actual_arrival of every node unchanged.
C15_PropagateDelay ==
    \A s \in DOMAIN shipments :
        \A i \in 0..Len(shipments[s].route), d \in 0..MaxDelay :
            PropagatedBy(shipments[s].route, i, d)

\* A late checkpoint at the first node has propagated its delay into a route
\* whose second node has an expected_arrival, no eta and an actual_arrival.
C15_Witness ==
    \E s \in DOMAIN shipments :
        /\ Len(shipments[s].route) = 2
        /\ shipments[s].route[1].actual_arrival = 5
        /\ shipments[s].route[1].expected_arrival = 0
        /\ shipments[s].route[2].expected_arrival = 8
        /\ shipments[s].route[2].eta = NoTime
        /\ shipments[s].route[2].actual_arrival = 2

\* The number of route nodes with an actual_arrival.
VisitedCount(route) ==
    Cardinality({i \in 1..Len(route) : route[i].actual_arrival # NoTime})

\* C16: for a shipment with a working ledger (loaded, no call failed) and only
\* create and checkpoint operations (no god-mode injection), the ledger holds
\* one entry more than the route has visited nodes and the telemetry holds as
\* many records as the route has visited nodes: every accepted checkpoint set
\* one actual_arrival, appended one entry and stored one record.
C16_OnePerCheckpoint ==
    \A s \in DOMAIN shipments :
        (contract = "loaded" /\ faults = 0 /\ injections = 0)
            => /\ Len(chain[s]) = 1 + VisitedCount(shipments[s].route)
               /\ Len(get_telemetry(s)) = VisitedCount(shipments[s].route)

\* The step is a suspended create_shipment storing its shipment.
CreateStores ==
    \E i \in 1..Len(tasks) : tasks[i].op = "create" /\ tasks' = RemoveTask(i)

\* C17: once a shipment's current_status is delivered, no checkpoint, tamper
\* or god-mode operation changes its route, status, document texts or ledger
\* entries.
C17_DeliveredReadOnly ==
    [][\A s \in DOMAIN shipments :
          (shipments[s].current_status = "delivered" /\ ~CreateStores)
              => /\ shipments'[s].route = shipments[s].route
                 /\ shipments'[s].current_status = "delivered"
                 /\ shipments'[s].po_text = shipments[s].po_text
                 /\ shipments'[s].invoice_text = shipments[s].invoice_text
                 /\ shipments'[s].bol_text = shipments[s].bol_text
                 /\ chain'[s] = chain[s]]_vars

\* C18: the result status of an accepted checkpoint is delivered if the node
\* is the last of the route; otherwise tamper_detected if the hash check did
\* not verify; otherwise anomaly_detected if the risk engine emitted an
\* anomaly; otherwise transferred.
C18_ResultStatus ==
    [][\A req \in CheckpointInputs :
          (req.shipment_id \in DOMAIN shipments /\ Accepts(req)) =>
              LET route == shipments[req.shipment_id].route
                  last  == NodeIndex(route, req.location_code) = Len(route) - 1
                  mismatch == ~ReportedResult.hash_verification.verified
                  risk  == \E k \in 1..Len(StagedAnomalies) :
                               StagedAnomalies[k].anomaly_type # "document_tampered"
              IN ReportedResult.status =
                     IF last THEN "delivered"
                     ELSE IF mismatch THEN "tamper_detected"
                     ELSE IF risk THEN "anomaly_detected"
                     ELSE "transferred"]_vars

\* A checkpoint before the last node has answered tamper_detected although
\* the risk engine emitted an anomaly as well.
C18_Witness ==
    /\ response.op = "checkpoint"
    /\ response.code = 200
    /\ response.body.status = "tamper_detected"
    /\ response.body.shipment_status = "in_transit"
    /\ \E k \in 1..Len(response.body.anomalies) :
           response.body.anomalies[k].anomaly_type = "TEMPERATURE_BREACH"
    /\ \E k \in 1..Len(response.body.anomalies) :
           response.body.anomalies[k].anomaly_type = "document_tampered"

\* The step accepts the submission while a ledger call of it fails.
AcceptsWithLedgerFault(req) ==
    /\ req.shipment_id \in DOMAIN shipments
    /\ contract = "loaded"
    /\ Accepts(req)
    /\ faults' > faults

\* The accepting step marks the submitted node and stores the advanced
\* status, which its result shows.
Advances(req) ==
    LET s     == req.shipment_id
        route == shipments[s].route
        n     == NodeIndex(route, req.location_code)
        status == IF n = Len(route) - 1 THEN "delivered" ELSE "in_transit"
    IN /\ shipments'[s].route[n + 1].actual_arrival = req.timestamp
       /\ shipments'[s].current_status = status
       /\ ReportedResult.shipment_status = status
       /\ ReportedResult.node_index = n

\* The result of the accepting step embeds the status of the ledger call that
\* failed: the append's when no entry was added, the verification's otherwise.
EmbedsFailure(req) ==
    IF chain'[req.shipment_id] = chain[req.shipment_id]
    THEN ReportedResult.blockchain_tx \in {"failed", "error"}
    ELSE /\ ReportedResult.blockchain_tx = "confirmed"
         /\ ReportedResult.hash_verification.status = "error"
         /\ ~ReportedResult.hash_verification.verified

\* The transaction references of the shipment after the step, given what
\* the append returned.
ReferencesAfter(req, added) ==
    shipments'[req.shipment_id].blockchain_tx_hashes =
        IF added
        THEN Append(shipments[req.shipment_id].blockchain_tx_hashes, "0xTX")
        ELSE shipments[req.shipment_id].blockchain_tx_hashes

\* C19 (as amended): a ledger failure during an accepted checkpoint (the
\* verification or the append returning status error, or the append status
\* failed) does not abort or roll back the checkpoint: the node is marked
\* visited, the advanced status is stored, and the result embeds the failure
\* status; an append with status error adds no transaction reference, while
\* an append with status failed (mined, then reverted) adds its own.
C19_LedgerFailureDegrades ==
    [][\A req \in CheckpointInputs :
          AcceptsWithLedgerFault(req) =>
              /\ Advances(req)
              /\ EmbedsFailure(req)
              /\ ReferencesAfter(req, ReportedResult.blockchain_tx # "error")]_vars

\* A checkpoint whose append raised has answered: the node is visited, the
\* shipment in transit, and the only transaction reference is the creation's.
C19_Witness ==
    /\ response.op = "checkpoint"
    /\ response.code = 200
    /\ response.body.blockchain_tx = "error"
    /\ response.body.shipment_status = "in_transit"
    /\ \E s \in DOMAIN shipments :
           /\ shipments[s].current_status = "in_transit"
           /\ shipments[s].route[1].actual_arrival # NoTime
           /\ shipments[s].blockchain_tx_hashes = << "0xTX" >>
           /\ Len(chain[s]) = 1

\* C19 (as stated): as above, and no transaction reference is added for an
\* append that failed, whatever its failure status.
C19_AsStated ==
    [][\A req \in CheckpointInputs :
          AcceptsWithLedgerFault(req) =>
              /\ Advances(req)
              /\ EmbedsFailure(req)
              /\ ReferencesAfter(req, ReportedResult.blockchain_tx = "confirmed")]_vars

\* The anomaly is returned as it was produced, apart from its assessment.
SameAnomaly(returned, produced) ==
    [returned EXCEPT !.genai_assessment = NoAssessment]
        = [produced EXCEPT !.genai_assessment = NoAssessment]

C21_PersistedBeforeInterpretation ==
    \A i \in 1..Len(tasks) :
        (tasks[i].op = "checkpoint" /\ tasks[i].pc = "gather") =>
            LET s == tasks[i].pending[1].shipment_id
                n == tasks[i].body.node_index
            IN /\ s \in DOMAIN shipments
               /\ shipments[s].route[n + 1].actual_arrival # NoTime
               /\ shipments[s].current_status = tasks[i].body.shipment_status
               /\ \A k \in 1..Len(tasks[i].pending) :
                      \E j \in 1..Len(anomalies) :
                          SameAnomaly(anomalies[j], tasks[i].pending[k])

\* The step is create_shipment answering or storing, at once or resumed.
CreateStep == CreateStores \/ (response' # response /\ response'.op = "create")

\* C22: a creation with the shipment_id of a stored shipment, whether it
\* started before or after that shipment was stored, is rejected and leaves
\* the stored shipment and its ledger entries as they are: one creation is
\* stored per shipment_id and none resets route progress or status.
C22_CreateOnce ==
    [][\A s \in DOMAIN shipments :
          (CreateStep /\ response'.shipment_id = s)
              => /\ response'.code = 409
                 /\ shipments' = shipments
                 /\ chain' = chain]_vars

\* The least element of a non-empty set of numbers.
Least(S) == CHOOSE x \in S : \A y \in S : x <= y

\* The weight of the lightest edge joining a and b (Inf when there is none).
Weight(a, b) ==
    LET ws == {e[2] : e \in {f \in Adjacency(a) : f[1] = b}}
    IN IF ws = {} THEN Inf ELSE Least(ws)

\* The least total weight over the simple paths from a to b that avoid the
\* nodes of visited (a is in visited), by exhaustive search; Inf when there
\* is no such path.
RECURSIVE MinSimplePath(_, _, _)
MinSimplePath(a, b, visited) ==
    IF a = b THEN 0
    ELSE LET next == {e \in Adjacency(a) : e[1] \notin visited}
             totals == {LET rest == MinSimplePath(e[1], b, visited \cup {e[1]})
                        IN IF rest >= Inf THEN Inf ELSE e[2] + rest : e \in next}
         IN IF totals = {} THEN Inf ELSE Least(totals)

\* The total edge weight along the route's nodes.
RECURSIVE RouteWeight(_, _)
RouteWeight(route, k) ==
    IF k <= 1 THEN 0
    ELSE RouteWeight(route, k - 1)
             + Weight(route[k - 1].location_code, route[k].location_code)

\* The route is a walk along edges of the graph from origin to destination.
IsPath(route, origin, destination) ==
    /\ Len(route) >= 1
    /\ route[1].location_code = origin
    /\ route[Len(route)].location_code = destination
    /\ \A k \in 2..Len(route) :
           Weight(route[k - 1].location_code, route[k].location_code) < Inf

\* C23: for every pair of distinct known nodes (a, b), which the graph
\* connects, the route find_optimal_route(a, b) gives a creation is a path
\* from a to b whose total edge weight is the least over all simple paths
\* from a to b.
C23_ShortestRoute ==
    \A s \in DOMAIN shipments :
        LET a == shipments[s].origin
            b == shipments[s].destination
            route == shipments[s].route
        IN /\ route = find_optimal_route(a, b, 0)
           /\ a # b =>
                  /\ IsPath(route, a, b)
                  /\ RouteWeight(route, Len(route)) = MinSimplePath(a, b, {a})
                  /\ RouteWeight(route, Len(route)) < Inf

\* A creation from Delhi to Chennai has stored a route of several legs.
C23_Witness ==
    \E s \in DOMAIN shipments :
        /\ shipments[s].origin = "DEL"
        /\ shipments[s].destination = "CHN"
        /\ Len(shipments[s].route) >= 4
        /\ shipments[s].route[1].location_code = "DEL"
        /\ shipments[s].route[Len(shipments[s].route)].location_code = "CHN"

\* No route joins the endpoints: one of them is not a node of the graph, or
\* exhaustive search finds no path between them.
NoRouteBetween(origin, destination) ==
    \/ origin \notin NODES
    \/ destination \notin NODES
    \/ MinSimplePath(origin, destination, {origin}) >= Inf

\* C24: find_optimal_route returns no route exactly when an endpoint is not a
\* node of the graph or no path joins the endpoints; a creation that needs an
\* auto-generated route is then rejected (400) without storing a shipment or
\* appending a ledger entry, and every creation stored with an
\* auto-generated route has endpoints that a route joins.
C24_NoRouteRejected ==
    [][/\ (response' # response /\ response'.op = "create" /\ response'.code = 400)
              => \E req \in RouteCreateInputs :
                     /\ response'.detail = NoRouteDetail(req)
                     /\ NoRouteBetween(req.origin, req.destination)
                     /\ find_optimal_route(req.origin, req.destination, 0) = << >>
                     /\ UNCHANGED <<stores, tasks>>
       /\ \A s \in DOMAIN shipments' \ DOMAIN shipments :
              /\ ~NoRouteBetween(shipments'[s].origin, shipments'[s].destination)
              /\ shipments'[s].route # << >>]_vars

\* A creation towards a code the graph does not know has been rejected, and
\* neither a shipment nor a ledger entry exists.
C24_Witness ==
    /\ response.op = "create"
    /\ response.code = 400
    /\ response.detail = "No route found between DEL and XXX"
    /\ shipments = [s \in {} |-> NoBody]
    /\ \A s \in ShipmentIds : chain[s] = << >>


AcceptsOne == Len(telemetry') = Len(telemetry) + 1

\* The record the accepting step has stored.
Accepted == telemetry'[Len(telemetry')]

\* The policy the accepting step evaluates: the one of the stored shipment's
\* category, the default one for a shipment without a risk profile.
AcceptedPolicy ==
    LET category == shipments[Accepted.shipment_id].risk_profile
    IN IF category \in DOMAIN RISK_POLICIES THEN RISK_POLICIES[category]
       ELSE RISK_POLICIES["default"]

\* The staged anomalies of the type.
StagedOfType(anomaly_type) ==
    SelectSeq(StagedAnomalies, LAMBDA a : a.anomaly_type = anomaly_type)

\* The distance from the temperature to the nearer bound of the range.
DistanceToRange(t, min_t, max_t) ==
    IF Abs(t - min_t) < Abs(t - max_t) THEN Abs(t - min_t) ELSE Abs(t - max_t)

\* The severity the ratio of the deviation to the size of the range gives.
RatioSeverity(deviation, size) ==
    IF size = 0 \/ deviation > size THEN "CRITICAL"
    ELSE IF 2 * deviation > size THEN "HIGH"
    ELSE "MEDIUM"

\* C26: an accepted checkpoint stages TEMPERATURE_BREACH exactly when the
\* policy defines a range, a temperature is supplied and it lies outside
\* [min, max] (the bounds are in range), once, with severity CRITICAL when
\* max - min = 0 or deviation / (max - min) > 1.0, HIGH when that ratio is
\* > 0.5, MEDIUM otherwise, the deviation being the distance to the nearer
\* bound.
C26_TemperatureBreach ==
    [][AcceptsOne =>
          LET t == Accepted.temperature
              policy == AcceptedPolicy
              breaches == StagedOfType("TEMPERATURE_BREACH")
              outside ==
                  /\ "temperature_range" \in DOMAIN policy
                  /\ t # NoReading
                  /\ ~(policy.temperature_range[1] <= t /\ t <= policy.temperature_range[2])
          IN /\ Len(breaches) = (IF outside THEN 1 ELSE 0)
             /\ outside =>
                    breaches[1].severity =
                        RatioSeverity(DistanceToRange(t, policy.temperature_range[1],
                                                      policy.temperature_range[2]),
                                      policy.temperature_range[2]
                                          - policy.temperature_range[1])]_vars

\* A checkpoint of a pharmaceutical shipment, range (2, 8), that observed 12
\* has staged a HIGH breach for interpretation.
C26_Witness ==
    \E i \in 1..Len(tasks) :
        /\ tasks[i].op = "checkpoint"
        /\ tasks[i].pc = "gather"
        /\ \E k \in 1..Len(tasks[i].pending) :
               /\ tasks[i].pending[k].anomaly_type = "TEMPERATURE_BREACH"
               /\ tasks[i].pending[k].severity = "HIGH"
               /\ tasks[i].pending[k].details.observed_temperature = 12
               /\ tasks[i].pending[k].details.allowed_range = <<2, 8>>


\* The expected weight the accepting step hands to the risk engine.
AcceptedBaseline ==
    LET telemetry_records == get_telemetry(Accepted.shipment_id)
    IN IF telemetry_records = << >> THEN NoReading
       ELSE telemetry_records[1].weight_kg

\* |observed - expected| / expected * 100 > pct, for expected >= 0 (any
\* deviation from an expected weight of 0 is beyond every percentage).
DeviatesBeyond(observed, expected, pct) ==
    Abs(observed - expected) * 100 > pct * expected

\* The weight deviations the accepting step has staged are those of the
\* rule: one when deviates holds, HIGH beyond twice the tolerance and MEDIUM
\* otherwise, none when it does not.
WeightRule(deviates) ==
    LET deviations == StagedOfType("WEIGHT_DEVIATION")
        tolerance == AcceptedPolicy.weight_tolerance_pct
    IN /\ Len(deviations) = (IF deviates THEN 1 ELSE 0)
       /\ deviates =>
              deviations[1].severity =
                  (IF DeviatesBeyond(Accepted.weight_kg, AcceptedBaseline, 2 * tolerance)
                   THEN "HIGH" ELSE "MEDIUM")

\* C27: an accepted checkpoint stages WEIGHT_DEVIATION exactly when an
\* expected-weight baseline other than 0 is supplied, the policy defines a
\* tolerance, and |observed - expected| / expected * 100 is strictly greater
\* than the tolerance; its severity is HIGH when the percentage is strictly
\* greater than twice the tolerance, otherwise MEDIUM; without a baseline,
\* or with a baseline of 0, no weight anomaly is staged.
C27_WeightDeviation ==
    [][AcceptsOne =>
          WeightRule(/\ AcceptedBaseline # NoReading
                     /\ AcceptedBaseline # 0
                     /\ "weight_tolerance_pct" \in DOMAIN AcceptedPolicy
                     /\ DeviatesBeyond(Accepted.weight_kg, AcceptedBaseline,
                                       AcceptedPolicy.weight_tolerance_pct))]_vars

\* A checkpoint of a pharmaceutical shipment, tolerance 2, that weighed 96
\* against the first reading of 100 has staged a MEDIUM deviation.
C27_Witness ==
    \E i \in 1..Len(tasks) :
        /\ tasks[i].op = "checkpoint"
        /\ tasks[i].pc = "gather"
        /\ \E k \in 1..Len(tasks[i].pending) :
               /\ tasks[i].pending[k].anomaly_type = "WEIGHT_DEVIATION"
               /\ tasks[i].pending[k].severity = "MEDIUM"
               /\ tasks[i].pending[k].details.observed_weight_kg = 96
               /\ tasks[i].pending[k].details.expected_weight_kg = 100
               /\ tasks[i].pending[k].details.tolerance_pct = 2

\* C27 as stated: WEIGHT_DEVIATION is staged exactly when a baseline is
\* supplied, whatever its value, the policy defines a tolerance and the
\* deviation percentage is strictly greater than the tolerance.
C27_AsStated ==
    [][AcceptsOne =>
          WeightRule(/\ AcceptedBaseline # NoReading
                     /\ "weight_tolerance_pct" \in DOMAIN AcceptedPolicy
                     /\ DeviatesBeyond(Accepted.weight_kg, AcceptedBaseline,
                                       AcceptedPolicy.weight_tolerance_pct))]_vars


\* The route node the accepted submission is for, as the step read it.
AcceptedNode ==
    LET route == shipments[Accepted.shipment_id].route
    IN route[NodeIndex(route, Accepted.location_code) + 1]

\* max(0, checkpoint time - expected_arrival), 0 without an expected_arrival.
LatenessAt(node, time) ==
    IF node.expected_arrival = NoTime THEN 0
    ELSE Max(time - node.expected_arrival, 0)

\* C28: the delay used at an accepted checkpoint is max(0, checkpoint time -
\* the node's expected_arrival), and 0 when the node has no expected_arrival;
\* the step reports that delay, and stages a DELAY anomaly exactly when it is
\* strictly greater than the policy's max delay, with severity HIGH when it
\* is strictly greater than twice the max and MEDIUM otherwise.
C28_DelayRule ==
    [][AcceptsOne =>
          LET delay == LatenessAt(AcceptedNode, Accepted.timestamp)
              max_delay == AcceptedPolicy.max_delay_hours
              delays == StagedOfType("DELAY")
          IN /\ ReportedResult.delay_hours = delay
             /\ Len(delays) = (IF delay > max_delay THEN 1 ELSE 0)
             /\ delay > max_delay =>
                    /\ delays[1].details.delay_hours = delay
                    /\ delays[1].severity =
                           (IF delay > 2 * max_delay THEN "HIGH" ELSE "MEDIUM")]_vars


\* The operations that evaluate the risk policy of a shipment.
RiskOperations == {"checkpoint", "inject_delay", "inject_temperature", "inject_weight"}

\* C29: no operation that evaluates the risk policy for a stored shipment
\* (checkpoint submission and the three god-mode injections) fails because
\* the shipment has no risk profile: for such a shipment the operation
\* answers as it does under the default policy, never with a server error.
C29_DefaultPolicyFallback ==
    [][(/\ response' # response
        /\ response'.op \in RiskOperations
        /\ response'.shipment_id \in DOMAIN shipments
        /\ shipments[response'.shipment_id].risk_profile = "None")
           => ~(response'.code = 500 /\ response'.detail = "AttributeError")]_vars


\* The weight of the first telemetry reading ever stored for the shipment, or
\* NoReading when none is stored.
FirstEverWeight(s) ==
    LET stored == {i \in 1..Len(telemetry) : telemetry[i].shipment_id = s}
    IN IF stored = {} THEN NoReading
       ELSE telemetry[CHOOSE i \in stored : \A j \in stored : i <= j].weight_kg

\* C30: at every accepted checkpoint the expected-weight baseline passed to
\* the risk engine is the weight of the first telemetry reading ever stored
\* for that shipment, so the WEIGHT_DEVIATION staged is the one of that
\* baseline; at the first checkpoint, when no telemetry exists yet, there is
\* no baseline and no WEIGHT_DEVIATION is staged.
C30_FirstReadingBaseline ==
    [][AcceptsOne =>
          LET first == FirstEverWeight(Accepted.shipment_id)
              deviations == StagedOfType("WEIGHT_DEVIATION")
              deviates ==
                  /\ first # NoReading
                  /\ first # 0
                  /\ DeviatesBeyond(Accepted.weight_kg, first,
                                    AcceptedPolicy.weight_tolerance_pct)
          IN /\ AcceptedBaseline = first
             /\ Len(deviations) = (IF deviates THEN 1 ELSE 0)
             /\ \A k \in 1..Len(deviations) :
                    deviations[k].details.expected_weight_kg = first]_vars


\* The anomaly types and severities of the data model, as they are spelled.
AnomalyTypes ==
    {"TEMPERATURE_BREACH", "HUMIDITY_BREACH", "WEIGHT_DEVIATION", "DELAY",
     "DOCUMENT_TAMPERED"}
Severities == {"LOW", "MEDIUM", "HIGH", "CRITICAL"}

\* C31: every anomaly record persisted by any operation has anomaly_type in
\* {TEMPERATURE_BREACH, HUMIDITY_BREACH, WEIGHT_DEVIATION, DELAY,
\* DOCUMENT_TAMPERED} and severity in {LOW, MEDIUM, HIGH, CRITICAL}, spelled
\* exactly so.
C31_AnomalyVocabulary ==
    \A i \in 1..Len(anomalies) :
        /\ anomalies[i].anomaly_type \in AnomalyTypes
        /\ anomalies[i].severity \in Severities


\* C32: on a shipment created with a working ledger (the ledger is loaded and
\* no call to it has failed), the hash verification of the first accepted
\* checkpoint reports verified = true with status first_checkpoint.
C32_FirstCheckpointStatus ==
    [][(/\ AcceptsOne
        /\ contract = "loaded"
        /\ faults' = 0
        /\ get_telemetry(Accepted.shipment_id) = << >>)
           => /\ ReportedResult.hash_verification.verified
              /\ ReportedResult.hash_verification.status = "first_checkpoint"]_vars


\* The time d hours later, an absent time staying absent.
Later(t, d) == IF t = NoTime THEN NoTime ELSE t + d

\* C33: an accepted checkpoint runs ETA propagation exactly when its delay is
\* > 0 and the node is not the last route node: then every later node's eta
\* and expected_arrival move by the delay, and otherwise no node's do; a
\* delayed checkpoint at the last node sets current_status to delivered,
\* still stages its DELAY anomaly, and leaves every node's eta and
\* expected_arrival unchanged.
C33_PropagationWhenDelayed ==
    [][AcceptsOne =>
          LET s == Accepted.shipment_id
              route == shipments[s].route
              after == shipments'[s].route
              n == NodeIndex(route, Accepted.location_code)
              delay == ReportedResult.delay_hours
              final == n = Len(route) - 1
              runs == delay > 0 /\ ~final
          IN /\ Len(after) = Len(route)
             /\ \A j \in 1..Len(route) :
                    LET d == IF runs /\ j - 1 > n THEN delay ELSE 0
                    IN /\ after[j].eta = Later(route[j].eta, d)
                       /\ after[j].expected_arrival = Later(route[j].expected_arrival, d)
             /\ final => shipments'[s].current_status = "delivered"
             /\ (final /\ delay > AcceptedPolicy.max_delay_hours)
                    => Len(StagedOfType("DELAY")) = 1]_vars

\* A checkpoint at Kanpur, 6 hours late, has moved Bhopal's expected arrival
\* from hour 12 to hour 18 and left Kanpur's at hour 3; the checkpoint at
\* Bhopal, the last node, 7 hours late, has then delivered the shipment,
\* staged its DELAY and moved nothing.
C33_Witness ==
    \E s \in DOMAIN shipments :
        /\ shipments[s].current_status = "delivered"
        /\ Len(shipments[s].route) = 3
        /\ shipments[s].route[2].actual_arrival = 9
        /\ shipments[s].route[2].expected_arrival = 3
        /\ shipments[s].route[3].expected_arrival = 18
        /\ shipments[s].route[3].actual_arrival = 25
        /\ \E i \in 1..Len(tasks) :
               /\ tasks[i].op = "checkpoint"
               /\ tasks[i].pc = "gather"
               /\ \E k \in 1..Len(tasks[i].pending) :
                      /\ tasks[i].pending[k].anomaly_type = "DELAY"
                      /\ tasks[i].pending[k].location_code = "BPL"


\* C34: in every reachable state of every shipment, status and route agree:
\* current_status = created iff no route node has actual_arrival,
\* current_status = delivered iff the last route node has actual_arrival, and
\* current_status = in_transit otherwise.
C34_StatusAgreesWithRoute ==
    \A s \in DOMAIN shipments :
        LET route == shipments[s].route
            none == \A j \in 1..Len(route) : route[j].actual_arrival = NoTime
            last == route[Len(route)].actual_arrival # NoTime
        IN shipments[s].current_status =
               (IF last THEN "delivered"
                ELSE IF none THEN "created"
                ELSE "in_transit")


\* The submission is the next one of an in-order journey: the shipment is
\* stored, as many checkpoints were accepted for it as nodes precede the
\* submission's node, and none was accepted for that node or a later one.
NextInOrder(req) ==
    /\ req.shipment_id \in DOMAIN shipments
    /\ LET route == shipments[req.shipment_id].route
           accepted == get_telemetry(req.shipment_id)
           n == NodeIndex(route, req.location_code)
       IN /\ n # -1
          /\ Len(accepted) = n
          /\ \A k \in 1..Len(accepted) : accepted[k].location_code = route[k].location_code

\* C35: for every stored shipment, with an auto-generated or a
\* caller-supplied route, a checkpoint submitted for the route nodes in index
\* order is never rejected (no rejection the handler answers is its answer
\* to such a submission), and the accepted checkpoint for the last node, the
\* len(route)-th, and no earlier one, leaves the shipment delivered.
C35_InOrderJourney ==
    [][/\ (response' # response /\ response'.op = "checkpoint" /\ response'.code = 400)
              => \A req \in CheckpointInputs :
                     NextInOrder(req) => CheckpointRejection(req) # response'.detail
       /\ AcceptsOne =>
              LET s == Accepted.shipment_id
              IN (/\ s \in DOMAIN shipments'
                  /\ NextInOrder([shipment_id |-> s,
                                  location_code |-> Accepted.location_code]))
                     => (shipments'[s].current_status = "delivered")
                            = (Len(get_telemetry(s)) + 1 = Len(shipments[s].route))]_vars


\* C36: for distinct known nodes o and d, the route find_optimal_route(o, d)
\* gives a creation starts at o, ends at d, has every consecutive pair of
\* nodes joined by an edge of the graph, and contains no location code
\* twice, so that a location code names one node of the route.
C36_SimplePath ==
    \A s \in DOMAIN shipments :
        LET o == shipments[s].origin
            d == shipments[s].destination
            route == shipments[s].route
        IN o # d =>
               /\ route[1].location_code = o
               /\ route[Len(route)].location_code = d
               /\ \A k \in 1..(Len(route) - 1) :
                      \E e \in 1..Len(EDGES) :
                          {EDGES[e][1], EDGES[e][2]}
                              = {route[k].location_code, route[k + 1].location_code}
               /\ \A j, k \in 1..Len(route) :
                      route[j].location_code = route[k].location_code => j = k
               /\ \A k \in 1..Len(route) :
                      NodeIndex(route, route[k].location_code) = k - 1

\* A creation from Kolkata to Mumbai has stored a route of several legs.
C36_Witness ==
    \E s \in DOMAIN shipments :
        /\ shipments[s].origin = "KOL"
        /\ shipments[s].destination = "MUM"
        /\ Len(shipments[s].route) >= 4
        /\ shipments[s].route[1].location_code = "KOL"
        /\ shipments[s].route[Len(shipments[s].route)].location_code = "MUM"


\* The route is one find_optimal_route built: every node is a node of the
\* graph under the graph's name for it.
AutoGenerated(route) ==
    \A k \in 1..Len(route) :
        /\ route[k].location_code \in NODES
        /\ route[k].name = NodeName(route[k].location_code)

\* C37: for a shipment with an auto-generated route, after any sequence of
\* checkpoint submissions (accepted or rejected), eta and expected_arrival
\* are non-decreasing in route index.
C37_EtaMonotone ==
    \A s \in DOMAIN shipments :
        LET route == shipments[s].route
        IN AutoGenerated(route) =>
               \A k \in 1..(Len(route) - 1) :
                   /\ route[k].eta # NoTime
                   /\ route[k + 1].eta # NoTime
                   /\ route[k].eta <= route[k + 1].eta
                   /\ route[k].expected_arrival # NoTime
                   /\ route[k + 1].expected_arrival # NoTime
                   /\ route[k].expected_arrival <= route[k + 1].expected_arrival

\* A checkpoint at Kanpur 145 hours late has moved Bhopal's eta and
\* expected arrival from hour 12 to hour 157.
C37_Witness ==
    \E s \in DOMAIN shipments :
        /\ AutoGenerated(shipments[s].route)
        /\ Len(shipments[s].route) = 3
        /\ shipments[s].route[2].actual_arrival = 148
        /\ shipments[s].route[2].eta = 3
        /\ shipments[s].route[3].eta = 157
        /\ shipments[s].route[3].expected_arrival = 157


\* C38: a checkpoint records a document-tampered anomaly only if the hash of
\* the shipment's current document texts differs from the hash of the texts
\* as they were at the previous anchor: an accepted checkpoint on a shipment
\* whose texts are those it was created with (the texts change once at most
\* here, so they are also those of every earlier checkpoint) reports
\* verified and stages no document-tampered anomaly, whatever ledger errors
\* and god-mode injections came before.
C38_TamperOnlyOnChange ==
    [][(/\ AcceptsOne
        /\ CurrentHash(Accepted.shipment_id) = shipments[Accepted.shipment_id].doc_hash)
           => /\ ReportedResult.hash_verification.verified
              /\ \A k \in 1..Len(StagedAnomalies) :
                     StagedAnomalies[k].anomaly_type # "document_tampered"]_vars


\* The lateness of node k (1-based) of an auto-generated route against its
\* expected_arrival as projected at creation: the cumulative edge weights
\* from the creation time, hour 0.
LatenessAtCreation(route, k, time) == time - RouteWeight(route, k)

\* Every visited node of the route was reached no earlier than expected.
NoneEarly(route) ==
    \A k \in 1..Len(route) :
        route[k].actual_arrival # NoTime
            => route[k].actual_arrival >= route[k].expected_arrival

\* C39: for a shipment with an auto-generated route whose checkpoints arrive
\* in index order and no earlier than their node's current expected_arrival,
\* the delays reported at nodes 0..i sum to node i's actual arrival minus its
\* expected_arrival as projected at creation; step by step: the delay
\* reported at node i is that lateness less the lateness of node i-1, the
\* lateness added since the previous checkpoint, and the DELAY rule is
\* applied to it.
C39_DelayIncrement ==
    [][AcceptsOne =>
          LET s == Accepted.shipment_id
              route == shipments[s].route
              n == NodeIndex(route, Accepted.location_code) + 1
              before == IF n = 1 THEN 0
                        ELSE LatenessAtCreation(route, n - 1, route[n - 1].actual_arrival)
              increment == LatenessAtCreation(route, n, Accepted.timestamp) - before
          IN (/\ AutoGenerated(route)
              /\ NoneEarly(route)
              /\ \A k \in 1..(n - 1) : route[k].actual_arrival # NoTime
              /\ Accepted.timestamp >= route[n].expected_arrival)
                 => /\ ReportedResult.delay_hours = increment
                    /\ Len(StagedOfType("DELAY"))
                           = (IF increment > AcceptedPolicy.max_delay_hours THEN 1 ELSE 0)]_vars

=============================================================================
